---- MODULE Spec2Model ----
(***************************************************************************)
(* Zoo facility model: the weighted graph (Graph.cpp), the aviary with its *)
(* admission rules (ZooGraph.cpp), the animal manager (AnimalManager.cpp)  *)
(* and the employee manager (EmployeeManager.cpp, Employee.cpp).           *)
(*                                                                         *)
(* Identifiers are strings in the program.  Here an identifier is a small  *)
(* natural number; the order of the numbers is the lexicographic order of  *)
(* the strings they stand for ("A" < "B" < "C"), and 0 stands for the      *)
(* empty string, which orders before every other string.                   *)
(***************************************************************************)
EXTENDS Integers, Sequences, FiniteSets, TLC

VARIABLES
    vertices,   \* Graph::vertices: id -> vertex object (an Aviary in ZooGraph)
    edges,      \* Graph::edges: vector<Edge>, two records per addEdge
    heap,       \* the Animal objects made so far; an animal's id is its index
                \* (ids are fresh UUIDs, never handed out twice)
    animals,    \* AnimalManager::animals: the ids the index holds
    employees,  \* EmployeeManager::employees: id -> Employee
    store,      \* the database: whether statements succeed (up), and the
                \* rows of table Paths, (fromId, toId) -> length
    logger,     \* the Logger: flags, whether its file is open, the lines
                \* written to the console (out) and to the file
    last        \* the last call made and what it returned

vars == <<vertices, edges, heap, animals, employees, store, logger, last>>

(***************************************************************************)
(* Bounds of the model.                                                    *)
(***************************************************************************)
\* vertex / aviary identifiers "A", "B", "C"
Ids == {1, 2, 3}
\* edge weights offered to addEdge (non-negative)
Weights == {0, 1}
\* addEdge calls whose records the edge vector may hold at once, in the
\* structural specification and in the path specification
MaxEdges == 2
MaxPathEdges == 3

\* the empty string: what unordered_map<string,string>::operator[] yields
\* for a key it does not hold
EmptyId == 0

\* numeric_limits<double>::infinity(), above every finite path weight
Infinity == 1000000

\* A call record: operation, its identifier arguments, its return value.
Call3(op, a, b, c, ret) == [op |-> op, a |-> a, b |-> b, c |-> c, ret |-> ret]

Call(op, a, b, ret) == Call3(op, a, b, EmptyId, ret)

NoCall == Call("none", EmptyId, EmptyId, FALSE)

(***************************************************************************)
(* Logger (Logger.h, Logger.cpp).  flags is an int used as a bit set; the  *)
(* model keeps the four level bits and one bit that is no level.           *)
(***************************************************************************)
\* enum Logger::Level
DEBUG == 1
INFO == 2
WARN == 4
ERROR == 8

\* the bits of an int that the model keeps
FlagBits == {1, 2, 4, 8, 16}

\* bit b of n is set
HasBit(n, b) == (n \div b) % 2 = 1

Bits(n) == {b \in FlagBits : HasBit(n, b)}

BitsToInt(S) ==
    (IF 1 \in S THEN 1 ELSE 0) + (IF 2 \in S THEN 2 ELSE 0)
    + (IF 4 \in S THEN 4 ELSE 0) + (IF 8 \in S THEN 8 ELSE 0)
    + (IF 16 \in S THEN 16 ELSE 0)

\* x | y, x & y and x & ~y
bitOr(x, y) == BitsToInt(Bits(x) \cup Bits(y))
bitAnd(x, y) == BitsToInt(Bits(x) \cap Bits(y))
bitAndNot(x, y) == BitsToInt(Bits(x) \ Bits(y))

\* Logger::Logger: every level on; the file may fail to open
Logger(opened) ==
    [flags |-> bitOr(bitOr(DEBUG, INFO), bitOr(WARN, ERROR)),
     open |-> opened, out |-> <<>>, file |-> <<>>]

\* Logger::isEnabled: flags & lvl, converted to bool
isEnabled(lg, lvl) == bitAnd(lg.flags, lvl) # 0

\* Logger::levelToStr
levelToStr(lvl) ==
    CASE lvl = DEBUG -> "DEBUG"
      [] lvl = INFO -> "INFO"
      [] lvl = WARN -> "WARN"
      [] lvl = ERROR -> "ERROR"
      [] OTHER -> "UNKNOWN"

\* Logger::log: nothing for a level that is off; otherwise the line, made of
\* the time, the level and the message, goes to the console and, when the
\* file is open, to the file.  A message is a sequence of words; the time is
\* left out of the line.
log(lg, lvl, msg) ==
    IF ~isEnabled(lg, lvl) THEN lg
    ELSE LET formatted == <<levelToStr(lvl)>> \o msg
         IN [lg EXCEPT !.out = Append(@, formatted),
                       !.file = IF lg.open THEN Append(@, formatted) ELSE @]

\* the names appended by enable and disable: one for each level bit of lvls
levelNames(lvls) ==
    LET name(b) == IF HasBit(lvls, b) THEN <<levelToStr(b)>> ELSE <<>>
    IN name(DEBUG) \o name(INFO) \o name(WARN) \o name(ERROR)

\* enable that replaces the flags by lvls
enableOnly(lg, lvls) ==
    log([lg EXCEPT !.flags = lvls], INFO,
        <<"Ennabled loger levels:">> \o levelNames(lvls))

\* Logger::enable: flags |= lvls, then the change is logged at INFO
enable(lg, lvls) ==
    log([lg EXCEPT !.flags = bitOr(@, lvls)], INFO,
        <<"Ennabled loger levels:">> \o levelNames(lvls))

\* Logger::disable: flags &= ~lvls, then the change is logged at WARN
disable(lg, lvls) ==
    log([lg EXCEPT !.flags = bitAndNot(@, lvls)], WARN,
        <<"Disabled loger levels:">> \o levelNames(lvls))

(***************************************************************************)
(* unordered_map helpers                                                   *)
(***************************************************************************)
\* m[k] read through operator[]: a missing key is inserted with the
\* value-initialised default, so the read yields the default
Get(m, k, default) == IF k \in DOMAIN m THEN m[k] ELSE default

\* m[k] = v
Put(m, k, v) == [x \in (DOMAIN m) \cup {k} |-> IF x = k THEN v ELSE m[x]]

\* m.erase(k)
Erase(m, k) == [x \in (DOMAIN m) \ {k} |-> m[x]]

EmptyMap == <<>>

\* a database that answers, with no row in table Paths
EmptyStore == [up |-> TRUE, paths |-> EmptyMap]

(***************************************************************************)
(* Graph (Graph.cpp)                                                       *)
(***************************************************************************)
Edge(fromId, toId, weight) == [from |-> fromId, to |-> toId, weight |-> weight]

\* the lambda of Graph::removeVertex: the edge touches id
TouchesVertex(e, id) == e.from = id \/ e.to = id

\* the lambda of Graph::removeEdge and the test of Graph::getEdge
Joins(e, fromId, toId) ==
    \/ (e.from = fromId /\ e.to = toId)
    \/ (e.from = toId /\ e.to = fromId)

\* addVertex that keeps the vertex already stored under the id
addVertexKeepFirst(vs, id, v) == IF id \in DOMAIN vs THEN vs ELSE Put(vs, id, v)

\* Graph::addVertex: vertices[v->getId()] = v
addVertex(vs, id, v) == Put(vs, id, v)

\* Graph::removeVertex, the vertex map afterwards
removeVertexVertices(vs, id) == IF id \in DOMAIN vs THEN Erase(vs, id) ELSE vs

\* removeVertex that forgets the records ending at id
removeVertexEdgesFromOnly(vs, es, id) ==
    IF id \in DOMAIN vs
    THEN SelectSeq(es, LAMBDA e : e.from # id)
    ELSE es

\* Graph::removeVertex, the edge vector afterwards
removeVertexEdges(vs, es, id) ==
    IF id \in DOMAIN vs
    THEN SelectSeq(es, LAMBDA e : ~TouchesVertex(e, id))
    ELSE es

\* Graph::getNeighbors, the loop over the edge vector from record i on: the
\* other end of every record that has id at one end is pushed back
RECURSIVE getNeighborsFrom(_, _, _)
getNeighborsFrom(es, i, id) ==
    IF i > Len(es) THEN <<>>
    ELSE (IF es[i].from = id THEN <<es[i].to>>
          ELSE IF es[i].to = id THEN <<es[i].from>>
          ELSE <<>>) \o getNeighborsFrom(es, i + 1, id)

\* Graph::getNeighbors: the vector returned
getNeighbors(es, id) == getNeighborsFrom(es, 1, id)

\* addEdge that asks for the first endpoint only
addEdgeFromOnly(vs, es, fromId, toId, weight) ==
    IF fromId \in DOMAIN vs
    THEN es \o <<Edge(fromId, toId, weight), Edge(toId, fromId, weight)>>
    ELSE es

\* addEdge that stores the record from fromId to toId only
addEdgeSingleRecord(vs, es, fromId, toId, weight) ==
    IF fromId \in DOMAIN vs /\ toId \in DOMAIN vs
    THEN Append(es, Edge(fromId, toId, weight))
    ELSE es

\* Graph::addEdge
addEdge(vs, es, fromId, toId, weight) ==
    IF fromId \in DOMAIN vs /\ toId \in DOMAIN vs
    THEN es \o <<Edge(fromId, toId, weight), Edge(toId, fromId, weight)>>
    ELSE es

\* removeEdge that erases the records from fromId to toId only
removeEdgeOneWay(es, fromId, toId) ==
    SelectSeq(es, LAMBDA e : ~(e.from = fromId /\ e.to = toId))

\* Graph::removeEdge
removeEdge(es, fromId, toId) == SelectSeq(es, LAMBDA e : ~Joins(e, fromId, toId))

\* Graph::getEdge: the first matching record, or nullptr (here <<>>)
getEdge(es, fromId, toId) ==
    LET hits == {i \in 1..Len(es) : Joins(es[i], fromId, toId)}
    IN IF hits = {} THEN <<>>
       ELSE <<es[CHOOSE i \in hits : \A j \in hits : i <= j]>>

\* Graph::findPath, the for loop over the edge records for the vertex cur
\* taken from the queue; st = [q, visited, parent].  The other end of every
\* record that touches cur is marked, given cur for parent and queued,
\* unless it is marked already.
RECURSIVE visitEdges(_, _, _, _)
visitEdges(es, i, cur, st) ==
    IF i > Len(es) THEN st
    ELSE IF es[i].from # cur /\ es[i].to # cur THEN visitEdges(es, i + 1, cur, st)
    ELSE LET neighbor == IF es[i].from = cur THEN es[i].to ELSE es[i].from
         IN IF neighbor \in st.visited THEN visitEdges(es, i + 1, cur, st)
            ELSE visitEdges(es, i + 1, cur,
                     [q       |-> Append(st.q, neighbor),
                      visited |-> st.visited \cup {neighbor},
                      parent  |-> [x \in (DOMAIN st.parent) \cup {neighbor} |->
                                     IF x = neighbor THEN cur ELSE st.parent[x]]])

\* Graph::findPath, the while (!q.empty()) loop, left when endId is taken
\* from the queue
RECURSIVE findPathLoop(_, _, _)
findPathLoop(es, endId, st) ==
    IF st.q = <<>> THEN st
    ELSE IF Head(st.q) = endId THEN [st EXCEPT !.q = Tail(@)]
    ELSE findPathLoop(es, endId,
                      visitEdges(es, 1, Head(st.q), [st EXCEPT !.q = Tail(@)]))

\* priority_queue<pair<double,string>, ..., greater<>>::top(): the least pair,
\* compared by distance first and identifier second
pqTop(pq) ==
    CHOOSE p \in pq : \A q \in pq :
        p[1] < q[1] \/ (p[1] = q[1] /\ p[2] <= q[2])

\* the inner loop with a relaxation that never lowers a finite distance
RECURSIVE relaxEdgesFirstWins(_, _, _, _, _)
relaxEdgesFirstWins(es, i, d, u, st) ==
    IF i > Len(es) THEN st
    ELSE IF es[i].from # u /\ es[i].to # u
         THEN relaxEdgesFirstWins(es, i + 1, d, u, st)
    ELSE LET neighbor == IF es[i].from = u THEN es[i].to ELSE es[i].from
             newDist  == d + es[i].weight
         IN IF Get(st.dist, neighbor, 0) = Infinity
            THEN relaxEdgesFirstWins(es, i + 1, d, u,
                     [dist   |-> Put(st.dist, neighbor, newDist),
                      parent |-> Put(st.parent, neighbor, u),
                      pq     |-> st.pq \cup {<<newDist, neighbor>>}])
            ELSE relaxEdgesFirstWins(es, i + 1, d, u, st)

\* Graph::findPathByWeight, the inner loop over the edge vector for the
\* popped pair (d, u); st = [dist, parent, pq]
RECURSIVE relaxEdges(_, _, _, _, _)
relaxEdges(es, i, d, u, st) ==
    IF i > Len(es) THEN st
    ELSE IF es[i].from # u /\ es[i].to # u THEN relaxEdges(es, i + 1, d, u, st)
    ELSE LET neighbor == IF es[i].from = u THEN es[i].to ELSE es[i].from
             newDist  == d + es[i].weight
         IN IF newDist < Get(st.dist, neighbor, 0)
            THEN relaxEdges(es, i + 1, d, u,
                     [dist   |-> Put(st.dist, neighbor, newDist),
                      parent |-> Put(st.parent, neighbor, u),
                      pq     |-> st.pq \cup {<<newDist, neighbor>>}])
            ELSE relaxEdges(es, i + 1, d, u, st)

\* Graph::findPathByWeight, the while (!pq.empty()) loop
RECURSIVE dijkstraLoop(_, _)
dijkstraLoop(es, st) ==
    IF st.pq = {} THEN st
    ELSE LET top  == pqTop(st.pq)
             rest == [st EXCEPT !.pq = @ \ {top}]
         IN IF top[1] > Get(st.dist, top[2], 0)
            THEN dijkstraLoop(es, rest)
            ELSE dijkstraLoop(es, relaxEdges(es, 1, top[1], top[2], rest))

\* Graph::findPathByWeight, the loop
\*   for (v = endId; v != startId; v = parent[v]) path.push_back(v);
\* followed by push_back(startId) and reverse.  When v comes back to an
\* identifier it already had, the loop cannot end: path grows until the
\* allocation fails, and no path is returned (ok = FALSE).
RECURSIVE walkBack(_, _, _, _, _)
walkBack(parent, startId, v, acc, seen) ==
    IF v = startId THEN [ok |-> TRUE, path |-> <<startId>> \o acc]
    ELSE IF v \in seen THEN [ok |-> FALSE, path |-> <<>>]
    ELSE walkBack(parent, startId, Get(parent, v, EmptyId), <<v>> \o acc,
                  seen \cup {v})

\* Graph::findPathByWeight
findPathByWeight(vs, es, startId, endId) ==
    LET dist0 == Put([id \in DOMAIN vs |-> Infinity], startId, 0)
        st    == dijkstraLoop(es, [dist |-> dist0, parent |-> EmptyMap,
                                   pq |-> {<<0, startId>>}])
    IN IF Get(st.dist, endId, 0) = Infinity
       THEN [ok |-> TRUE, path |-> <<>>]
       ELSE walkBack(st.parent, startId, endId, <<>>, {})

\* Graph::findPath: breadth first from startId; the path is read back from
\* endId through parent, as in findPathByWeight
findPath(es, startId, endId) ==
    LET st == findPathLoop(es, endId,
                  [q |-> <<startId>>, visited |-> {startId}, parent |-> <<>>])
    IN IF endId \notin st.visited
       THEN [ok |-> TRUE, path |-> <<>>]
       ELSE walkBack(st.parent, startId, endId, <<>>, {})

\* Graph::distanceBetween, the inner loop: the weight of the first record
\* joining a and b, nothing when there is none
firstEdgeWeight(es, a, b) ==
    LET e == getEdge(es, a, b) IN IF e = <<>> THEN 0 ELSE e[1].weight

RECURSIVE sumPath(_, _, _)
sumPath(es, path, i) ==
    IF i + 1 > Len(path) THEN 0
    ELSE firstEdgeWeight(es, path[i], path[i + 1]) + sumPath(es, path, i + 1)

\* distanceBetween without the test for an empty path
distanceBetweenNoSentinel(vs, es, fromId, toId) ==
    LET p == findPathByWeight(vs, es, fromId, toId)
    IN IF ~p.ok THEN [ok |-> FALSE, value |-> 0]
       ELSE [ok |-> TRUE, value |-> sumPath(es, p.path, 1)]

\* Graph::distanceBetween
distanceBetween(vs, es, fromId, toId) ==
    LET p == findPathByWeight(vs, es, fromId, toId)
    IN IF ~p.ok THEN [ok |-> FALSE, value |-> 0]
       ELSE IF p.path = <<>> THEN [ok |-> TRUE, value |-> -1]
       ELSE [ok |-> TRUE, value |-> sumPath(es, p.path, 1)]

(***************************************************************************)
(* Graph specification: the mutators and the queries of Graph              *)
\* checkConnectivity's scan that marks a neighbour but never queues it
RECURSIVE scanEdgesNoPush(_, _, _, _)
scanEdgesNoPush(es, i, cur, st) ==
    IF i > Len(es) THEN st
    ELSE LET e == es[i]
             touches == e.from = cur \/ e.to = cur
             neighbor == IF e.from = cur THEN e.to ELSE e.from
         IN IF touches /\ neighbor \notin st.visited
            THEN scanEdgesNoPush(es, i + 1, cur,
                                 [q |-> st.q,
                                  visited |-> st.visited \cup {neighbor}])
            ELSE scanEdgesNoPush(es, i + 1, cur, st)

\* Graph::checkConnectivity, the for loop over the edge records for the
\* vertex cur taken from the queue: the other end of every record that
\* touches cur is marked visited and queued unless it is visited already
RECURSIVE scanEdges(_, _, _, _)
scanEdges(es, i, cur, st) ==
    IF i > Len(es) THEN st
    ELSE LET e == es[i]
             touches == e.from = cur \/ e.to = cur
             neighbor == IF e.from = cur THEN e.to ELSE e.from
         IN IF touches /\ neighbor \notin st.visited
            THEN scanEdges(es, i + 1, cur,
                           [q |-> Append(st.q, neighbor),
                            visited |-> st.visited \cup {neighbor}])
            ELSE scanEdges(es, i + 1, cur, st)

\* Graph::checkConnectivity, the while loop: the keys of visited at its end
RECURSIVE bfsLoop(_, _)
bfsLoop(es, st) ==
    IF st.q = <<>> THEN st.visited
    ELSE bfsLoop(es, scanEdges(es, 1, Head(st.q),
                               [q |-> Tail(st.q), visited |-> st.visited]))

\* Graph::checkConnectivity with startId the key vertices.begin() yields
checkConnectivity(vs, es, startId) ==
    IF DOMAIN vs = {} THEN TRUE
    ELSE Cardinality(bfsLoop(es, [q |-> <<startId>>, visited |-> {startId}]))
            = Cardinality(DOMAIN vs)

(***************************************************************************)
\* a plain Vertex carries its identifier only
Vertex(id) == [id |-> id]

GraphInit ==
    /\ vertices = EmptyMap
    /\ edges = <<>>
    /\ heap = <<>>
    /\ animals = {}
    /\ employees = EmptyMap
    /\ store = EmptyStore
    /\ logger = Logger(TRUE)
    /\ last = NoCall

AddVertex(id) ==
    /\ vertices' = addVertex(vertices, id, Vertex(id))
    /\ last' = Call("addVertex", id, EmptyId, TRUE)
    /\ UNCHANGED <<edges, heap, animals, employees, store, logger>>

RemoveVertex(id) ==
    /\ vertices' = removeVertexVertices(vertices, id)
    /\ edges' = removeVertexEdges(vertices, edges, id)
    /\ last' = Call("removeVertex", id, EmptyId, id \in DOMAIN vertices)
    /\ UNCHANGED <<heap, animals, employees, store, logger>>

AddEdge(fromId, toId, weight) ==
    /\ edges' = addEdge(vertices, edges, fromId, toId, weight)
    /\ last' = Call("addEdge", fromId, toId, TRUE)
    /\ UNCHANGED <<vertices, heap, animals, employees, store, logger>>

\* Graph::removeEdge returns nothing; what the call record keeps is the
\* number of records erased, which the handler writes to the log
RemoveEdge(fromId, toId) ==
    /\ edges' = removeEdge(edges, fromId, toId)
    /\ last' = Call("removeEdge", fromId, toId,
                    Len(edges) - Len(removeEdge(edges, fromId, toId)))
    /\ UNCHANGED <<vertices, heap, animals, employees, store, logger>>

FindPathByWeight(startId, endId) ==
    /\ last' = Call("findPathByWeight", startId, endId,
                    findPathByWeight(vertices, edges, startId, endId))
    /\ UNCHANGED <<vertices, edges, heap, animals, employees, store, logger>>

DistanceBetween(fromId, toId) ==
    /\ last' = Call("distanceBetween", fromId, toId,
                    distanceBetween(vertices, edges, fromId, toId))
    /\ UNCHANGED <<vertices, edges, heap, animals, employees, store, logger>>

\* Graph::findPath called by a client
FindPath(startId, endId) ==
    /\ last' = Call("findPath", startId, endId, findPath(edges, startId, endId))
    /\ UNCHANGED <<vertices, edges, heap, animals, employees, store, logger>>

\* Graph::checkConnectivity; vertices.begin() of an unordered_map is any of
\* the vertices
CheckConnectivity ==
    /\ IF DOMAIN vertices = {}
       THEN last' = Call("checkConnectivity", EmptyId, EmptyId,
                         checkConnectivity(vertices, edges, EmptyId))
       ELSE \E startId \in DOMAIN vertices :
               last' = Call("checkConnectivity", EmptyId, EmptyId,
                            checkConnectivity(vertices, edges, startId))
    /\ UNCHANGED <<vertices, edges, heap, animals, employees, store, logger>>

\* Graph::getNeighbors called by a client
GetNeighbors(id) ==
    /\ last' = Call("getNeighbors", id, EmptyId, getNeighbors(edges, id))
    /\ UNCHANGED <<vertices, edges, heap, animals, employees, store, logger>>

\* capacities of the aviaries handed to addVertex
VertexCapacities == {1, 2}

\* the vertex object of an addVertex call, from what the call record keeps
\* of it: a plain Vertex, or an Aviary of the capacity in b
VertexWritten(call) ==
    IF call.b = EmptyId THEN [id |-> call.a]
    ELSE [capacity |-> call.b, animals |-> <<>>, assignedEmployee |-> EmptyId]

\* Graph::addVertex with a newly built Aviary for the vertex, which is what
\* ZooGraph::addAviary hands to it
AddVertexAviary(id, capacity) ==
    /\ vertices' = addVertex(vertices, id, VertexWritten(
                        Call("addVertex", id, capacity, TRUE)))
    /\ last' = Call("addVertex", id, capacity, TRUE)
    /\ UNCHANGED <<edges, heap, animals, employees, store, logger>>

\* ZooGraph::removeAviary: removeVertex, then the repository is told
RemoveAviary(id) ==
    /\ vertices' = removeVertexVertices(vertices, id)
    /\ edges' = removeVertexEdges(vertices, edges, id)
    /\ last' = Call("removeAviary", id, EmptyId, id \in DOMAIN vertices)
    /\ UNCHANGED <<heap, animals, employees, store, logger>>

\* The structural specification: addEdge is offered both orders of a pair.
GraphNext ==
    \/ \E id \in Ids : AddVertex(id)
    \/ \E id \in Ids : RemoveVertex(id)
    \/ \E id \in Ids : RemoveAviary(id)
    \/ \E a \in Ids : \E b \in Ids \ {a} : \E w \in Weights :
          Len(edges) < 2 * MaxEdges /\ AddEdge(a, b, w)
    \/ \E a \in Ids : \E b \in Ids \ {a} : RemoveEdge(a, b)
    \/ CheckConnectivity
    \/ \E id \in Ids : GetNeighbors(id)

GraphSpec == GraphInit /\ [][GraphNext]_vars

\* The vertex specification: addVertex with plain vertices and with aviaries,
\* over a graph whose edges come and go with addEdge and removeVertex.
VertexNext ==
    \/ \E id \in Ids : AddVertex(id)
    \/ \E id \in Ids, c \in VertexCapacities : AddVertexAviary(id, c)
    \/ \E id \in Ids : RemoveVertex(id)
    \/ \E a \in Ids : \E b \in {x \in Ids : x > a} : \E w \in Weights :
          Len(edges) < 2 * MaxEdges /\ AddEdge(a, b, w)

VertexSpec == GraphInit /\ [][VertexNext]_vars

\* The path specification: the same mutators followed by the path queries.
\* addEdge(a, b, w) and addEdge(b, a, w) append the same two records, in the
\* other order, and every loop of the queries reads a record by both of its
\* ends, so the pairs are offered in one order here.
PathNext ==
    \/ \E id \in Ids : AddVertex(id)
    \/ \E id \in Ids : RemoveVertex(id)
    \/ \E a \in Ids : \E b \in {x \in Ids : x > a} : \E w \in Weights :
          Len(edges) < 2 * MaxPathEdges /\ AddEdge(a, b, w)
    \/ \E a \in Ids : \E b \in {x \in Ids : x > a} : RemoveEdge(a, b)
    \/ \E a \in Ids, b \in Ids : FindPathByWeight(a, b)
    \/ \E a \in Ids, b \in Ids : DistanceBetween(a, b)

PathSpec == GraphInit /\ [][PathNext]_vars

\* The hop specification: the mutators followed by findPath, which does not
\* read weights, so every edge is added with weight 1.
HopNext ==
    \/ \E id \in Ids : AddVertex(id)
    \/ \E id \in Ids : RemoveVertex(id)
    \/ \E a \in Ids : \E b \in {x \in Ids : x > a} :
          Len(edges) < 2 * MaxPathEdges /\ AddEdge(a, b, 1)
    \/ \E a \in Ids : \E b \in {x \in Ids : x > a} : RemoveEdge(a, b)
    \/ \E a \in Ids, b \in Ids : FindPath(a, b)

HopSpec == GraphInit /\ [][HopNext]_vars

\* The ring specification: four vertices, edges added along the ring
\* 1 - 2 - 4 - 3 - 1 (a pair may be added again with another weight), and
\* distanceBetween asked between the opposite corners 1 and 4, both ways.
RingIds == {1, 2, 3, 4}
RingPairs == {<<1, 2>>, <<2, 4>>, <<1, 3>>, <<3, 4>>}
RingEnds == {1, 4}
MaxRingEdges == 5

RingNext ==
    \/ \E id \in RingIds : AddVertex(id)
    \/ \E pr \in RingPairs : \E w \in Weights :
          Len(edges) < 2 * MaxRingEdges /\ AddEdge(pr[1], pr[2], w)
    \/ \E a \in RingEnds : \E b \in RingEnds \ {a} :
          {a, b} \subseteq DOMAIN vertices /\ DistanceBetween(a, b)

RingSpec == GraphInit /\ [][RingNext]_vars

(***************************************************************************)
(* Animals (Animals.cpp)                                                   *)
(***************************************************************************)
\* aviary identifiers and capacities offered to addAviary
AviaryIds == {1, 2}
Capacities == {0, 1, 2}
\* the identifiers createAnimal hands out, in this order
AnimalIds == {1, 2}

\* the seven types createAnimal accepts
AnimalTypes ==
    {"Mammal", "Bird", "Reptile", "Fish", "Amphibian", "Insect", "Arachnid"}

\* (species, type) pairs offered to createAnimal; the last one has a type
\* createAnimal rejects
Kinds ==
    { <<"Lion", "Mammal">>, <<"Spider", "Arachnid">>, <<"Bee", "Insect">>,
      <<"Dragon", "Myth">> }

\* Animal::Animal(name, species, age, weight, type): aviaryId empty, not fed
Animal(species, type) ==
    [species |-> species, type |-> type, aviaryId |-> EmptyId, isFed |-> FALSE]

\* Animal::isCompatibleWith, self asked about other
isCompatibleWith(self, other) ==
    IF \/ (self.species = "Lion" /\ other.species = "Tiger")
       \/ (self.species = "Tiger" /\ other.species = "Lion")
       \/ (self.species = "Wolf" /\ other.species = "Bear")
       \/ (self.species = "Bear" /\ other.species = "Wolf")
    THEN FALSE
    ELSE IF \/ (self.species = "Eagle" /\ other.species = "Parrot")
            \/ (self.species = "Parrot" /\ other.species = "Eagle")
            \/ (self.species = "Owl" /\ other.species = "Crow")
            \/ (self.species = "Crow" /\ other.species = "Owl")
    THEN FALSE
    ELSE IF \/ (self.species = "Snake" /\ other.type \in {"Mammal", "Bird"})
            \/ (other.species = "Snake" /\ self.type \in {"Mammal", "Bird"})
    THEN FALSE
    ELSE IF /\ self.type = "Fish" /\ other.type = "Fish"
            /\ (self.species = "Piranha" \/ other.species = "Piranha")
    THEN FALSE
    ELSE IF \/ (self.type = "Amphibian" /\ other.type = "Insect")
            \/ (self.type = "Insect" /\ other.type = "Amphibian")
    THEN FALSE
    ELSE IF /\ self.type = "Arachnid"
            /\ other.type \in {"Insect", "Amphibian", "Fish"}
    THEN FALSE
    ELSE TRUE

\* feed that turns a fed animal into one that is not
feedToggle(self) == [self EXCEPT !.isFed = ~@]

\* Animal::feed, the animal afterwards
feed(self) == IF ~self.isFed THEN [self EXCEPT !.isFed = TRUE] ELSE self

\* Animal::feed, the line it prints
feedMessage(self) == IF ~self.isFed THEN "ate" ELSE "already full"

(***************************************************************************)
(* Aviary (ZooGraph.cpp).  The occupant list holds pointers to Animal      *)
(* objects; a pointer is the object's index in heap.                       *)
(***************************************************************************)
\* a null shared_ptr<Animal>
NullAnimal == 0

\* Aviary::Aviary: no animals, no employee
Aviary(capacity) ==
    [capacity |-> capacity, animals |-> <<>>, assignedEmployee |-> EmptyId]

\* Aviary::hasAnimal
hasAnimal(av, animalId) == \E i \in 1..Len(av.animals) : av.animals[i] = animalId

\* canAddAnimal without the test for an animal that is already there
canAddAnimalTwice(av, animal, hp) ==
    IF animal = NullAnimal THEN FALSE
    ELSE IF Len(av.animals) >= av.capacity THEN FALSE
    ELSE \A i \in 1..Len(av.animals) :
            /\ isCompatibleWith(hp[av.animals[i]], hp[animal])
            /\ isCompatibleWith(hp[animal], hp[av.animals[i]])

\* canAddAnimal that asks only the animals already there about the newcomer
canAddAnimalOneWay(av, animal, hp) ==
    IF animal = NullAnimal THEN FALSE
    ELSE IF hasAnimal(av, animal) THEN FALSE
    ELSE IF Len(av.animals) >= av.capacity THEN FALSE
    ELSE \A i \in 1..Len(av.animals) :
            isCompatibleWith(hp[av.animals[i]], hp[animal])

\* canAddAnimal with the capacity test off by one
canAddAnimalOverfull(av, animal, hp) ==
    IF animal = NullAnimal THEN FALSE
    ELSE IF hasAnimal(av, animal) THEN FALSE
    ELSE IF Len(av.animals) > av.capacity THEN FALSE
    ELSE \A i \in 1..Len(av.animals) :
            /\ isCompatibleWith(hp[av.animals[i]], hp[animal])
            /\ isCompatibleWith(hp[animal], hp[av.animals[i]])

\* Aviary::canAddAnimal
canAddAnimal(av, animal, hp) ==
    IF animal = NullAnimal THEN FALSE
    ELSE IF hasAnimal(av, animal) THEN FALSE
    ELSE IF Len(av.animals) >= av.capacity THEN FALSE
    ELSE \A i \in 1..Len(av.animals) :
            /\ isCompatibleWith(hp[av.animals[i]], hp[animal])
            /\ isCompatibleWith(hp[animal], hp[av.animals[i]])

\* addAnimal that appends whatever canAddAnimal says
addAnimalUnchecked(av, animal, hp) ==
    IF animal = NullAnimal THEN av
    ELSE [av EXCEPT !.animals = Append(@, animal)]

\* Aviary::addAnimal, the aviary afterwards (the call returns canAddAnimal)
addAnimal(av, animal, hp) ==
    IF canAddAnimal(av, animal, hp)
    THEN [av EXCEPT !.animals = Append(@, animal)]
    ELSE av

\* Aviary::removeAnimal, the aviary afterwards (the call returns hasAnimal):
\* the first entry with that id is erased
removeAnimal(av, animalId) ==
    IF ~hasAnimal(av, animalId) THEN av
    ELSE LET k == CHOOSE i \in 1..Len(av.animals) :
                    /\ av.animals[i] = animalId
                    /\ \A j \in 1..(i - 1) : av.animals[j] # animalId
         IN [av EXCEPT !.animals =
                SubSeq(@, 1, k - 1) \o SubSeq(@, k + 1, Len(@))]

(***************************************************************************)
(* ZooGraph and AnimalManager (ZooGraph.cpp, AnimalManager.cpp)            *)
(***************************************************************************)
\* ZooGraph with empty repositories: no aviaries, paths, animals, employees
Init ==
    /\ vertices = EmptyMap
    /\ edges = <<>>
    /\ heap = <<>>
    /\ animals = {}
    /\ employees = EmptyMap
    /\ store = EmptyStore
    /\ logger = Logger(TRUE)
    /\ last = NoCall

\* ZooGraph::addAviary: addVertex, then the repository is told
AddAviary(id, capacity) ==
    /\ vertices' = addVertex(vertices, id, Aviary(capacity))
    /\ last' = Call("addAviary", id, EmptyId, TRUE)
    /\ UNCHANGED <<edges, heap, animals, employees, store, logger>>

\* AnimalManager::createAnimal: an unknown type creates nothing
CreateAnimal(species, type) ==
    /\ Len(heap) + 1 \in AnimalIds
    /\ IF type \in AnimalTypes
       THEN /\ heap' = Append(heap, Animal(species, type))
            /\ animals' = animals \cup {Len(heap) + 1}
            /\ last' = Call("createAnimal", Len(heap) + 1, EmptyId, TRUE)
       ELSE /\ UNCHANGED <<heap, animals>>
            /\ last' = Call("createAnimal", EmptyId, EmptyId, FALSE)
    /\ UNCHANGED <<vertices, edges, employees, store, logger>>

\* AnimalManager::addAnimalInAviary
AddAnimalInAviary(aviaryId, animalId) ==
    /\ IF animalId \notin animals \/ aviaryId \notin DOMAIN vertices
       THEN /\ UNCHANGED <<vertices, heap>>
            /\ last' = Call("addAnimalInAviary", aviaryId, animalId, FALSE)
       ELSE LET added == canAddAnimal(vertices[aviaryId], animalId, heap) IN
            /\ vertices' = [vertices EXCEPT
                               ![aviaryId] = addAnimal(@, animalId, heap)]
            /\ heap' = IF added
                       THEN [heap EXCEPT ![animalId].aviaryId = aviaryId]
                       ELSE heap
            /\ last' = Call("addAnimalInAviary", aviaryId, animalId, added)
    /\ UNCHANGED <<edges, animals, employees, store, logger>>

\* AnimalManager::removeAnimalFromAviary, the vertex map afterwards
removeAnimalFromAviary(vs, aviaryId, animalId) ==
    IF aviaryId \notin DOMAIN vs THEN vs
    ELSE [vs EXCEPT ![aviaryId] = removeAnimal(@, animalId)]

RemoveAnimalFromAviary(aviaryId, animalId) ==
    /\ vertices' = removeAnimalFromAviary(vertices, aviaryId, animalId)
    /\ last' = Call("removeAnimalFromAviary", aviaryId, animalId,
                    /\ aviaryId \in DOMAIN vertices
                    /\ hasAnimal(vertices[aviaryId], animalId))
    /\ UNCHANGED <<edges, heap, animals, employees, store, logger>>

\* removeAnimalFromAnimals that leaves the aviaries alone
removeFromHolderNever(vs, holder, animalId) == vs

\* AnimalManager::removeAnimalFromAnimals, the loop over the aviaries: the
\* first aviary met that has the animal loses it, and the loop breaks
removeFromHolder(vs, holder, animalId) ==
    removeAnimalFromAviary(vs, holder, animalId)

\* AnimalManager::removeAnimalFromAnimals.  The aviaries are met in the order
\* of the unordered_map, which is any order.
RemoveAnimalFromAnimals(animalId) ==
    /\ IF animalId \notin animals
       THEN /\ UNCHANGED <<vertices, animals>>
            /\ last' = Call("removeAnimalFromAnimals", animalId, EmptyId, FALSE)
       ELSE LET holders == {id \in DOMAIN vertices :
                               hasAnimal(vertices[id], animalId)} IN
            /\ IF holders = {} THEN UNCHANGED vertices
               ELSE \E holder \in holders :
                       vertices' = removeFromHolder(vertices, holder, animalId)
            /\ animals' = animals \ {animalId}
            /\ last' = Call("removeAnimalFromAnimals", animalId, EmptyId, TRUE)
    /\ UNCHANGED <<edges, heap, employees, store, logger>>

\* moveAnimalBetweenAviaries that evicts before it asks the destination
moveAnimalEvictFirst(vs, fromAviaryId, toAviaryId, animalId, hp) ==
    LET evicted == [vs EXCEPT ![fromAviaryId] = removeAnimal(@, animalId)]
    IN [ok |-> canAddAnimal(vs[toAviaryId], animalId, hp),
        vertices |-> [evicted EXCEPT ![toAviaryId] = addAnimal(@, animalId, hp)]]

\* moveAnimalBetweenAviaries that admits without evicting
moveAnimalKeepSource(vs, fromAviaryId, toAviaryId, animalId, hp) ==
    IF ~hasAnimal(vs[fromAviaryId], animalId) THEN [ok |-> FALSE, vertices |-> vs]
    ELSE IF ~canAddAnimal(vs[toAviaryId], animalId, hp)
    THEN [ok |-> FALSE, vertices |-> vs]
    ELSE [ok |-> TRUE,
          vertices |-> [vs EXCEPT ![toAviaryId] = addAnimal(@, animalId, hp)]]

\* AnimalManager::moveAnimalBetweenAviaries once both aviaries and the animal
\* are found: the two tests, then removeAnimal and addAnimal
moveAnimal(vs, fromAviaryId, toAviaryId, animalId, hp) ==
    IF ~hasAnimal(vs[fromAviaryId], animalId) THEN [ok |-> FALSE, vertices |-> vs]
    ELSE IF ~canAddAnimal(vs[toAviaryId], animalId, hp)
    THEN [ok |-> FALSE, vertices |-> vs]
    ELSE LET evicted == [vs EXCEPT ![fromAviaryId] = removeAnimal(@, animalId)]
         IN [ok |-> TRUE,
             vertices |-> [evicted EXCEPT
                              ![toAviaryId] = addAnimal(@, animalId, hp)]]

\* AnimalManager::moveAnimalBetweenAviaries
MoveAnimalBetweenAviaries(fromAviaryId, toAviaryId, animalId) ==
    /\ IF \/ fromAviaryId \notin DOMAIN vertices
          \/ toAviaryId \notin DOMAIN vertices
          \/ animalId \notin animals
       THEN /\ UNCHANGED vertices
            /\ last' = Call3("moveAnimalBetweenAviaries", fromAviaryId,
                             toAviaryId, animalId, FALSE)
       ELSE LET r == moveAnimal(vertices, fromAviaryId, toAviaryId, animalId, heap)
            IN /\ vertices' = r.vertices
               /\ last' = Call3("moveAnimalBetweenAviaries", fromAviaryId,
                                toAviaryId, animalId, r.ok)
    /\ UNCHANGED <<edges, heap, animals, employees, store, logger>>

\* getAnimalsNotInAviaries that looks into one aviary only
getAnimalsNotInAviariesOneAviary(vs, index) ==
    IF DOMAIN vs = {} THEN index
    ELSE LET first == CHOOSE aid \in DOMAIN vs : \A x \in DOMAIN vs : aid <= x
         IN {id \in index : ~hasAnimal(vs[first], id)}

\* AnimalManager::getAnimalsNotInAviaries, as a set of ids
getAnimalsNotInAviaries(vs, index) ==
    {id \in index : ~\E aid \in DOMAIN vs : hasAnimal(vs[aid], id)}

Next ==
    \/ \E id \in AviaryIds, c \in Capacities : AddAviary(id, c)
    \/ \E id \in AviaryIds : RemoveAviary(id)
    \/ \E k \in Kinds : CreateAnimal(k[1], k[2])
    \/ \E av \in AviaryIds, an \in AnimalIds : AddAnimalInAviary(av, an)
    \/ \E av \in AviaryIds, an \in AnimalIds : RemoveAnimalFromAviary(av, an)
    \/ \E an \in AnimalIds : RemoveAnimalFromAnimals(an)
    \/ \E f \in AviaryIds, t \in AviaryIds, an \in AnimalIds :
          MoveAnimalBetweenAviaries(f, t, an)

Spec == Init /\ [][Next]_vars

\* AnimalManager::getAnimalsNotInAviaries called by a client
GetAnimalsNotInAviaries ==
    /\ last' = Call("getAnimalsNotInAviaries", EmptyId, EmptyId,
                    getAnimalsNotInAviaries(vertices, animals))
    /\ UNCHANGED <<vertices, edges, heap, animals, employees, store, logger>>

\* The move specification: three aviaries with room for both animals, so
\* that a move between two of them leaves a third aside, and two species
\* that do not go together.
MoveAviaryIds == {1, 2, 3}
MoveCapacities == {2}
MoveKinds == { <<"Lion", "Mammal">>, <<"Tiger", "Mammal">> }

MoveNext ==
    \/ \E id \in MoveAviaryIds, c \in MoveCapacities : AddAviary(id, c)
    \/ \E id \in MoveAviaryIds : RemoveAviary(id)
    \/ \E k \in MoveKinds : CreateAnimal(k[1], k[2])
    \/ \E av \in MoveAviaryIds, an \in AnimalIds : AddAnimalInAviary(av, an)
    \/ \E f \in MoveAviaryIds, t \in MoveAviaryIds, an \in AnimalIds :
          MoveAnimalBetweenAviaries(f, t, an)
    \/ GetAnimalsNotInAviaries

MoveSpec == Init /\ [][MoveNext]_vars

\* AnimalManager::feedById returns nothing; what the call record keeps is
\* the line written: that of Animal::feed, or the warning for an unknown id
FeedById(animalId) ==
    /\ IF animalId \notin animals
       THEN /\ UNCHANGED heap
            /\ last' = Call("feedById", animalId, EmptyId, "not found")
       ELSE /\ heap' = [heap EXCEPT ![animalId] = feed(@)]
            /\ last' = Call("feedById", animalId, EmptyId,
                            feedMessage(heap[animalId]))
    /\ UNCHANGED <<vertices, edges, animals, employees, store, logger>>

\* The feeding specification: every operation of AnimalManager on two
\* aviaries with room for both animals.
FeedNext ==
    \/ \E id \in AviaryIds, c \in MoveCapacities : AddAviary(id, c)
    \/ \E id \in AviaryIds : RemoveAviary(id)
    \/ \E k \in MoveKinds : CreateAnimal(k[1], k[2])
    \/ \E av \in AviaryIds, an \in AnimalIds : AddAnimalInAviary(av, an)
    \/ \E av \in AviaryIds, an \in AnimalIds : RemoveAnimalFromAviary(av, an)
    \/ \E an \in AnimalIds : RemoveAnimalFromAnimals(an)
    \/ \E f \in AviaryIds, t \in AviaryIds, an \in AnimalIds :
          MoveAnimalBetweenAviaries(f, t, an)
    \/ \E an \in AnimalIds : FeedById(an)

FeedSpec == Init /\ [][FeedNext]_vars

(***************************************************************************)
(* Aviary objects called directly, with any animal pointer, null included  *)
(***************************************************************************)
\* (species, type) pairs offered to createAnimal in the aviary specification
AviaryKinds ==
    { <<"Lizard", "Reptile">>, <<"Snake", "Reptile">>,
      <<"Lion", "Mammal">>, <<"Parrot", "Bird">> }

\* what a call hands back: ok is false when the call never returns
Returned(value) == [ok |-> TRUE, value |-> value]
Crashed == [ok |-> FALSE, value |-> FALSE]

\* Aviary::addAnimal(animal) on an aviary of the graph.  With a null pointer
\* canAddAnimal is false and the warning then evaluates animal->getId(): a
\* member call through a null pointer, which the language leaves undefined;
\* the build either stops there or goes on to return false.
AviaryAddAnimal(aviaryId, animal) ==
    /\ aviaryId \in DOMAIN vertices
    /\ animal \in 0..Len(heap)
    /\ IF animal = NullAnimal
       THEN /\ UNCHANGED vertices
            /\ \E outcome \in {Crashed, Returned(FALSE)} :
                  last' = Call("addAnimal", aviaryId, animal, outcome)
       ELSE /\ vertices' = [vertices EXCEPT
                               ![aviaryId] = addAnimal(@, animal, heap)]
            /\ last' = Call("addAnimal", aviaryId, animal,
                            Returned(canAddAnimal(vertices[aviaryId], animal,
                                                  heap)))
    /\ UNCHANGED <<edges, heap, animals, employees, store, logger>>

\* Aviary::removeAnimal(animalId) on an aviary of the graph
AviaryRemoveAnimal(aviaryId, animalId) ==
    /\ aviaryId \in DOMAIN vertices
    /\ vertices' = [vertices EXCEPT ![aviaryId] = removeAnimal(@, animalId)]
    /\ last' = Call("removeAnimal", aviaryId, animalId,
                    hasAnimal(vertices[aviaryId], animalId))
    /\ UNCHANGED <<edges, heap, animals, employees, store, logger>>

\* the program runs on unless a call stopped it
Running == ~(last.op = "addAnimal" /\ ~last.ret.ok)

AviaryNext ==
    \/ \E id \in AviaryIds, c \in Capacities : Running /\ AddAviary(id, c)
    \/ \E k \in AviaryKinds : Running /\ CreateAnimal(k[1], k[2])
    \/ \E av \in AviaryIds, an \in {NullAnimal} \cup AnimalIds :
          Running /\ AviaryAddAnimal(av, an)
    \/ \E av \in AviaryIds, an \in AnimalIds :
          Running /\ AviaryRemoveAnimal(av, an)

AviarySpec == Init /\ [][AviaryNext]_vars

(***************************************************************************)
(* Employee (Employee.cpp) and EmployeeManager (EmployeeManager.cpp)       *)
(***************************************************************************)
\* employee identifiers offered to addEmployee
EmployeeIds == {1, 2}
\* longest list of aviaries one employee is driven to
MaxAssignments == 2

\* Employee::Employee(name, age, salary, experience): no aviaries
Employee == [aviaryIds |-> <<>>]

\* assignAviary that leaves the list as it is
assignAviaryDropped(emp, aviary) == emp

\* Employee::assignAviary: push_back
assignAviary(emp, aviary) == [emp EXCEPT !.aviaryIds = Append(@, aviary)]

\* replaceAviary that starts the list anew when fromAviary is not in it
replaceAviaryClear(emp, fromAviary, toAviary) ==
    IF \E i \in 1..Len(emp.aviaryIds) : emp.aviaryIds[i] = fromAviary
    THEN LET k == CHOOSE i \in 1..Len(emp.aviaryIds) :
                    /\ emp.aviaryIds[i] = fromAviary
                    /\ \A j \in 1..(i - 1) : emp.aviaryIds[j] # fromAviary
         IN [emp EXCEPT !.aviaryIds[k] = toAviary]
    ELSE [emp EXCEPT !.aviaryIds = <<toAviary>>]

\* replaceAviary that leaves the list alone when fromAviary is not in it
replaceAviaryNoAppend(emp, fromAviary, toAviary) ==
    IF \E i \in 1..Len(emp.aviaryIds) : emp.aviaryIds[i] = fromAviary
    THEN LET k == CHOOSE i \in 1..Len(emp.aviaryIds) :
                    /\ emp.aviaryIds[i] = fromAviary
                    /\ \A j \in 1..(i - 1) : emp.aviaryIds[j] # fromAviary
         IN [emp EXCEPT !.aviaryIds[k] = toAviary]
    ELSE emp

\* replaceAviary that rewrites every entry equal to fromAviary
replaceAviaryAll(emp, fromAviary, toAviary) ==
    IF \E i \in 1..Len(emp.aviaryIds) : emp.aviaryIds[i] = fromAviary
    THEN [emp EXCEPT !.aviaryIds =
             [i \in 1..Len(@) |-> IF @[i] = fromAviary THEN toAviary ELSE @[i]]]
    ELSE [emp EXCEPT !.aviaryIds = Append(@, toAviary)]

\* Employee::replaceAviary: the first entry equal to fromAviary becomes
\* toAviary; without such an entry toAviary is appended
replaceAviary(emp, fromAviary, toAviary) ==
    IF \E i \in 1..Len(emp.aviaryIds) : emp.aviaryIds[i] = fromAviary
    THEN LET k == CHOOSE i \in 1..Len(emp.aviaryIds) :
                    /\ emp.aviaryIds[i] = fromAviary
                    /\ \A j \in 1..(i - 1) : emp.aviaryIds[j] # fromAviary
         IN [emp EXCEPT !.aviaryIds[k] = toAviary]
    ELSE [emp EXCEPT !.aviaryIds = Append(@, toAviary)]

\* removeAviary that erases the first entry equal to aviaryId only
removeAviaryFirstOnly(emp, aviaryId) ==
    IF \E i \in 1..Len(emp.aviaryIds) : emp.aviaryIds[i] = aviaryId
    THEN LET k == CHOOSE i \in 1..Len(emp.aviaryIds) :
                    /\ emp.aviaryIds[i] = aviaryId
                    /\ \A j \in 1..(i - 1) : emp.aviaryIds[j] # aviaryId
         IN [emp EXCEPT !.aviaryIds =
                SubSeq(@, 1, k - 1) \o SubSeq(@, k + 1, Len(@))]
    ELSE emp

\* Employee::removeAviary: every entry equal to aviaryId is erased
removeAviary(emp, aviaryId) ==
    [emp EXCEPT !.aviaryIds = SelectSeq(@, LAMBDA x : x # aviaryId)]

\* Employee::isAssigned
isAssigned(emp) == emp.aviaryIds # <<>>

\* Aviary::setAssignedEmployee and Aviary::removeAssignedEmployee
setAssignedEmployee(av, empId) == [av EXCEPT !.assignedEmployee = empId]

removeAssignedEmployee(av) == [av EXCEPT !.assignedEmployee = EmptyId]

\* EmployeeManager::getUnassignedEmployees, as a set of ids
getUnassignedEmployees(emps) == {id \in DOMAIN emps : ~isAssigned(emps[id])}

\* EmployeeManager::addEmployee with a newly built employee object
AddEmployee(id) ==
    /\ IF id \in DOMAIN employees
       THEN /\ UNCHANGED employees
            /\ last' = Call("addEmployee", id, EmptyId, FALSE)
       ELSE /\ employees' = Put(employees, id, Employee)
            /\ last' = Call("addEmployee", id, EmptyId, TRUE)
    /\ UNCHANGED <<vertices, edges, heap, animals, store, logger>>

\* EmployeeManager::assignEmployeeToAviary
AssignEmployeeToAviary(employeeId, aviaryId) ==
    /\ IF employeeId \notin DOMAIN employees \/ aviaryId \notin DOMAIN vertices
       THEN /\ UNCHANGED <<vertices, employees>>
            /\ last' = Call("assignEmployeeToAviary", employeeId, aviaryId, FALSE)
       ELSE /\ vertices' = [vertices EXCEPT
                               ![aviaryId] = setAssignedEmployee(@, employeeId)]
            /\ employees' = [employees EXCEPT
                                ![employeeId] = assignAviary(@, aviaryId)]
            /\ last' = Call("assignEmployeeToAviary", employeeId, aviaryId, TRUE)
    /\ UNCHANGED <<edges, heap, animals, store, logger>>

\* EmployeeManager::reassignEmployee
ReassignEmployee(empId, fromAviaryId, toAviaryId) ==
    /\ IF \/ fromAviaryId \notin DOMAIN vertices
          \/ toAviaryId \notin DOMAIN vertices
          \/ empId \notin DOMAIN employees
       THEN /\ UNCHANGED <<vertices, employees>>
            /\ last' = Call3("reassignEmployee", empId, fromAviaryId,
                             toAviaryId, FALSE)
       ELSE LET cleared == [vertices EXCEPT
                               ![fromAviaryId] = removeAssignedEmployee(@)]
            IN /\ vertices' = [cleared EXCEPT
                                  ![toAviaryId] = setAssignedEmployee(@, empId)]
               /\ employees' = [employees EXCEPT
                                   ![empId] = replaceAviary(@, fromAviaryId,
                                                            toAviaryId)]
               /\ last' = Call3("reassignEmployee", empId, fromAviaryId,
                                toAviaryId, TRUE)
    /\ UNCHANGED <<edges, heap, animals, store, logger>>

\* EmployeeManager::removeEmployeeFromAviary
RemoveEmployeeFromAviary(employeeId, aviaryId) ==
    /\ IF \/ aviaryId \notin DOMAIN vertices
          \/ employeeId \notin DOMAIN employees
          \/ vertices[aviaryId].assignedEmployee = EmptyId
          \/ vertices[aviaryId].assignedEmployee # employeeId
       THEN /\ UNCHANGED <<vertices, employees>>
            /\ last' = Call("removeEmployeeFromAviary", employeeId, aviaryId,
                            FALSE)
       ELSE /\ vertices' = [vertices EXCEPT
                               ![aviaryId] = removeAssignedEmployee(@)]
            /\ employees' = [employees EXCEPT
                                ![employeeId] = removeAviary(@, aviaryId)]
            /\ last' = Call("removeEmployeeFromAviary", employeeId, aviaryId,
                            TRUE)
    /\ UNCHANGED <<edges, heap, animals, store, logger>>

\* the loop of removeEmployee stopping at the first aviary it clears
clearAssignedFirstOnly(vs, id) ==
    LET held == {aid \in DOMAIN vs : vs[aid].assignedEmployee = id}
    IN IF held = {} THEN vs
       ELSE LET first == CHOOSE aid \in held : \A x \in held : aid <= x
            IN [vs EXCEPT ![first] = removeAssignedEmployee(@)]

\* EmployeeManager::removeEmployee, the loop over the aviaries: every aviary
\* whose assigned employee is id loses it
clearAssigned(vs, id) ==
    [aid \in DOMAIN vs |->
        IF vs[aid].assignedEmployee = id
        THEN removeAssignedEmployee(vs[aid])
        ELSE vs[aid]]

\* EmployeeManager::removeEmployee
RemoveEmployee(id) ==
    /\ IF id \notin DOMAIN employees
       THEN /\ UNCHANGED <<vertices, employees>>
            /\ last' = Call("removeEmployee", id, EmptyId, FALSE)
       ELSE /\ vertices' = clearAssigned(vertices, id)
            /\ employees' = Erase(employees, id)
            /\ last' = Call("removeEmployee", id, EmptyId, TRUE)
    /\ UNCHANGED <<edges, heap, animals, store, logger>>

\* av occurs in the list of employee e
InList(e, av) ==
    \E i \in 1..Len(employees[e].aviaryIds) : employees[e].aviaryIds[i] = av

\* The staffing operations over the aviaries of the graph.  Capacity plays no
\* part in them, so every aviary is added with capacity 1; a call that would
\* lengthen an employee's list beyond MaxAssignments is not made.
StaffNext ==
    \/ \E id \in AviaryIds : AddAviary(id, 1)
    \/ \E id \in AviaryIds : RemoveAviary(id)
    \/ \E id \in EmployeeIds : AddEmployee(id)
    \/ \E e \in EmployeeIds, av \in AviaryIds :
          /\ e \in DOMAIN employees
                => Len(employees[e].aviaryIds) < MaxAssignments
          /\ AssignEmployeeToAviary(e, av)
    \/ \E e \in EmployeeIds, f \in AviaryIds, t \in AviaryIds :
          /\ (e \in DOMAIN employees /\ ~InList(e, f))
                => Len(employees[e].aviaryIds) < MaxAssignments
          /\ ReassignEmployee(e, f, t)
    \/ \E e \in EmployeeIds, av \in AviaryIds : RemoveEmployeeFromAviary(e, av)
    \/ \E id \in EmployeeIds : RemoveEmployee(id)

StaffSpec == Init /\ [][StaffNext]_vars

(***************************************************************************)
(* Employee objects on their own: a caller reads getAviaryIds(), then      *)
(* calls one method of the Employee; last.ret is the list that was read.   *)
(***************************************************************************)
\* the Employee objects built, none of them with an aviary
EmployeeInit ==
    /\ vertices = EmptyMap
    /\ edges = <<>>
    /\ heap = <<>>
    /\ animals = {}
    /\ employees = [e \in EmployeeIds |-> Employee]
    /\ store = EmptyStore
    /\ logger = Logger(TRUE)
    /\ last = NoCall

\* Employee::assignAviary
EmployeeAssignAviary(e, aviary) ==
    /\ employees' = [employees EXCEPT ![e] = assignAviary(@, aviary)]
    /\ last' = Call("assignAviary", e, aviary, employees[e].aviaryIds)
    /\ UNCHANGED <<vertices, edges, heap, animals, store, logger>>

\* Employee::replaceAviary
EmployeeReplaceAviary(e, fromAviary, toAviary) ==
    /\ employees' = [employees EXCEPT
                        ![e] = replaceAviary(@, fromAviary, toAviary)]
    /\ last' = Call3("replaceAviary", e, fromAviary, toAviary,
                     employees[e].aviaryIds)
    /\ UNCHANGED <<vertices, edges, heap, animals, store, logger>>

\* Employee::removeAviary
EmployeeRemoveAviary(e, aviaryId) ==
    /\ employees' = [employees EXCEPT ![e] = removeAviary(@, aviaryId)]
    /\ last' = Call("removeAviary", e, aviaryId, employees[e].aviaryIds)
    /\ UNCHANGED <<vertices, edges, heap, animals, store, logger>>

\* a call that would lengthen a list beyond MaxAssignments is not made
EmployeeNext ==
    \/ \E e \in EmployeeIds, av \in AviaryIds :
          /\ Len(employees[e].aviaryIds) < MaxAssignments
          /\ EmployeeAssignAviary(e, av)
    \/ \E e \in EmployeeIds, f \in AviaryIds, t \in AviaryIds :
          /\ ~InList(e, f) => Len(employees[e].aviaryIds) < MaxAssignments
          /\ EmployeeReplaceAviary(e, f, t)
    \/ \E e \in EmployeeIds, av \in AviaryIds : EmployeeRemoveAviary(e, av)

EmployeeSpec == EmployeeInit /\ [][EmployeeNext]_vars

(***************************************************************************)
(* ZooGraph paths and the database (ZooGraph.cpp, PathRepository.cpp,      *)
(* DatabaseManager.cpp).  The database is opened without PRAGMA            *)
(* foreign_keys, so the FOREIGN KEY clauses of table Paths are not         *)
(* enforced.                                                               *)
(***************************************************************************)
\* PathRepository::addPath: INSERT OR REPLACE under the primary key
\* (fromId, toId); a statement that fails leaves the table as it was
repoPthAddPath(st, fromId, toId, length) ==
    IF st.up THEN [st EXCEPT !.paths = Put(@, <<fromId, toId>>, length)] ELSE st

\* PathRepository::removePath: DELETE ... WHERE fromId = .. AND toId = ..
repoPthRemovePath(st, fromId, toId) ==
    IF st.up THEN [st EXCEPT !.paths = Erase(@, <<fromId, toId>>)] ELSE st

\* ZooGraph::loadPathsFromRepo, the loop over the rows read, from row i on:
\* addEdge for every row whose two ends are vertices
RECURSIVE loadPathsFrom(_, _, _, _, _)
loadPathsFrom(vs, es, rows, order, i) ==
    IF i > Len(order) THEN es
    ELSE loadPathsFrom(vs,
                       addEdge(vs, es, order[i][1], order[i][2], rows[order[i]]),
                       rows, order, i + 1)

\* ZooGraph::addPath: addEdge, then the repository is told; nothing is
\* returned
AddPath(fromId, toId, length) ==
    /\ edges' = addEdge(vertices, edges, fromId, toId, length)
    /\ store' = repoPthAddPath(store, fromId, toId, length)
    /\ last' = Call("addPath", fromId, toId, TRUE)
    /\ UNCHANGED <<vertices, heap, animals, employees, logger>>

\* ZooGraph::removePath: removeEdge, then the repository is told
RemovePath(fromId, toId) ==
    /\ edges' = removeEdge(edges, fromId, toId)
    /\ store' = repoPthRemovePath(store, fromId, toId)
    /\ last' = Call("removePath", fromId, toId, TRUE)
    /\ UNCHANGED <<vertices, heap, animals, employees, logger>>

\* The program is started again: ZooGraph::ZooGraph reads the aviaries back
\* (they are stored as they are added) and then the paths, into an empty
\* edge vector.  SELECT without ORDER BY yields the rows in any order; rows
\* with an end that is no vertex are skipped, whatever their place.
Restart ==
    /\ store.up
    /\ LET loadable == {k \in DOMAIN store.paths :
                           k[1] \in DOMAIN vertices /\ k[2] \in DOMAIN vertices}
           n == Cardinality(loadable)
       IN \E order \in {f \in [1..n -> loadable] :
                           \A i, j \in 1..n : i # j => f[i] # f[j]} :
             edges' = loadPathsFrom(vertices, <<>>, store.paths, order, 1)
    /\ last' = Call("ZooGraph", EmptyId, EmptyId, TRUE)
    /\ UNCHANGED <<vertices, heap, animals, employees, store, logger>>

\* identifiers offered to addPath and removePath: the two aviaries and one
\* identifier that is never an aviary
StoreIds == {1, 2, 3}

\* The path store specification: a database that never fails.
PathStoreNext ==
    \/ \E id \in AviaryIds : AddAviary(id, 1)
    \/ \E a \in StoreIds : \E b \in StoreIds \ {a} : \E w \in Weights :
          Len(edges) < 2 * MaxEdges /\ AddPath(a, b, w)
    \/ \E a \in StoreIds : \E b \in StoreIds \ {a} : RemovePath(a, b)
    \/ Restart

PathStoreSpec == Init /\ [][PathStoreNext]_vars

\* DatabaseManager::execute starts to fail (the file is gone, the disk is
\* full), or works again
StoreFlips ==
    /\ store' = [store EXCEPT !.up = ~@]
    /\ last' = NoCall
    /\ UNCHANGED <<vertices, edges, heap, animals, employees, logger>>

\* The failing store specification: operations that change memory and then
\* tell a repository, over a database that may fail.
StoreFailNext ==
    \/ StoreFlips
    \/ \E id \in AviaryIds : AddAviary(id, 1)
    \/ Len(heap) = 0 /\ CreateAnimal("Lion", "Mammal")
    \/ AddEmployee(1)
    \/ \E av \in AviaryIds : AddAnimalInAviary(av, 1)
    \/ \E av \in AviaryIds :
          /\ 1 \in DOMAIN employees
                => Len(employees[1].aviaryIds) < MaxAssignments
          /\ AssignEmployeeToAviary(1, av)
    \/ \E a \in AviaryIds : \E b \in AviaryIds \ {a} :
          Len(edges) < 2 * MaxEdges /\ AddPath(a, b, 1)

StoreFailSpec == Init /\ [][StoreFailNext]_vars

(***************************************************************************)
(* A Logger on its own, driven by a client.                                *)
(***************************************************************************)
\* the level sets offered to enable and disable: none, one level, several,
\* all four, and a level together with a bit that is no level
LevelMasks == {0, 1, 6, 15, 17}
\* the levels offered to log and isEnabled
Levels == {DEBUG, INFO, WARN, ERROR}
\* the messages offered to log
Messages == {<<"msg">>}
\* lines the console may hold
MaxLogLines == 2

\* Logger::Logger(filename)
LoggerInit ==
    /\ vertices = EmptyMap
    /\ edges = <<>>
    /\ heap = <<>>
    /\ animals = {}
    /\ employees = EmptyMap
    /\ store = EmptyStore
    /\ \E opened \in BOOLEAN : logger = Logger(opened)
    /\ last = NoCall

\* Logger::enable called by a client
Enable(lvls) ==
    /\ logger' = enable(logger, lvls)
    /\ last' = Call("enable", lvls, EmptyId, TRUE)
    /\ UNCHANGED <<vertices, edges, heap, animals, employees, store>>

\* Logger::disable called by a client
Disable(lvls) ==
    /\ logger' = disable(logger, lvls)
    /\ last' = Call("disable", lvls, EmptyId, TRUE)
    /\ UNCHANGED <<vertices, edges, heap, animals, employees, store>>

\* Logger::isEnabled called by a client
IsEnabled(lvl) ==
    /\ last' = Call("isEnabled", lvl, EmptyId, isEnabled(logger, lvl))
    /\ UNCHANGED <<vertices, edges, heap, animals, employees, store, logger>>

\* Logger::log called by a client (through debug, info, warn or error)
Log(lvl, msg) ==
    /\ logger' = log(logger, lvl, msg)
    /\ last' = Call("log", lvl, msg, TRUE)
    /\ UNCHANGED <<vertices, edges, heap, animals, employees, store>>

\* The logger specification; a call is not made once the console holds
\* MaxLogLines lines.
LoggerNext ==
    \/ \E lvls \in LevelMasks :
          Len(logger.out) < MaxLogLines /\ Enable(lvls)
    \/ \E lvls \in LevelMasks :
          Len(logger.out) < MaxLogLines /\ Disable(lvls)
    \/ \E lvl \in Levels : IsEnabled(lvl)
    \/ \E lvl \in Levels, msg \in Messages :
          Len(logger.out) < MaxLogLines /\ Log(lvl, msg)

LoggerSpec == LoggerInit /\ [][LoggerNext]_vars

(***************************************************************************)
(* Account (Account.cpp): serialize and deserialize.  A string is a        *)
(* sequence of characters.                                                 *)
(***************************************************************************)
\* enum class Role, in the order of its values 0, 1, 2
Roles == <<"ADMIN", "MANAGER", "EMPLOYEE">>

\* Account::roleToInt: static_cast<int>
roleToInt(r) == (CHOOSE i \in 1..Len(Roles) : Roles[i] = r) - 1

\* Account::Account
Account(u, hash, r) == [username |-> u, passwordHash |-> hash, role |-> r]

\* what a call gives back: a value, or an exception
Value(v) == [ok |-> TRUE, value |-> v]
Thrown == [ok |-> FALSE]

\* Account::intToRole
intToRole(v) ==
    IF v \in 0..(Len(Roles) - 1) THEN Value(Roles[v + 1]) ELSE Thrown

DigitChars == <<"0", "1", "2", "3", "4", "5", "6", "7", "8", "9">>

isDigit(c) == \E d \in 1..Len(DigitChars) : DigitChars[d] = c

digitValue(c) == (CHOOSE d \in 1..Len(DigitChars) : DigitChars[d] = c) - 1

\* operator<< of an unsigned integer: its decimal digits
RECURSIVE toDecimal(_)
toDecimal(n) ==
    IF n < 10 THEN <<DigitChars[n + 1]>>
    ELSE Append(toDecimal(n \div 10), DigitChars[(n % 10) + 1])

\* stoull and stoi: the number written by the digits at the front of s,
\* whatever follows them; an exception when s does not start with a digit.
\* (No string of the model has white space or a sign, or digits enough to
\* leave the range of the type.)
RECURSIVE leadingNumber(_, _, _)
leadingNumber(s, i, acc) ==
    IF i > Len(s) \/ ~isDigit(s[i]) THEN acc
    ELSE leadingNumber(s, i + 1, 10 * acc + digitValue(s[i]))

stringToNumber(s) ==
    IF s = <<>> \/ ~isDigit(s[1]) THEN Thrown
    ELSE Value(leadingNumber(s, 1, 0))

\* getline(iss, field, delim) on what is left of the stream: it fails when
\* nothing is left; otherwise field is what stands before the first delim
\* (all of it when there is none) and the delim is taken off the stream too
getline(s, delim) ==
    IF s = <<>> THEN [ok |-> FALSE]
    ELSE LET hits == {i \in 1..Len(s) : s[i] = delim}
         IN IF hits = {}
            THEN [ok |-> TRUE, field |-> s, rest |-> <<>>]
            ELSE LET k == CHOOSE i \in hits : \A j \in hits : i <= j
                 IN [ok |-> TRUE, field |-> SubSeq(s, 1, k - 1),
                     rest |-> SubSeq(s, k + 1, Len(s))]

\* Account::serialize: username ';' passwordHash ';' role number
serialize(acc) ==
    acc.username \o <<";">> \o toDecimal(acc.passwordHash) \o <<";">>
        \o toDecimal(roleToInt(acc.role))

\* Account::deserialize: three getline calls, the last to the end of the
\* line; a hash that stoull cannot read becomes 0; stoi and intToRole throw
deserialize(line) ==
    LET g1 == getline(line, ";")
    IN IF ~g1.ok THEN Thrown
       ELSE LET g2 == getline(g1.rest, ";")
            IN IF ~g2.ok THEN Thrown
               ELSE LET g3 == getline(g2.rest, "\n")
                    IN IF ~g3.ok THEN Thrown
                       ELSE LET h == stringToNumber(g2.field)
                                hash == IF h.ok THEN h.value ELSE 0
                                rInt == stringToNumber(g3.field)
                            IN IF ~rInt.ok THEN Thrown
                               ELSE LET r == intToRole(rInt.value)
                                    IN IF ~r.ok THEN Thrown
                                       ELSE Value(Account(g1.field, hash,
                                                          r.value))

\* the characters of the user names offered, and their greatest length
NameChars == {"a", ";", "1"}
MaxNameLen == 3
Usernames == UNION {[1..n -> NameChars] : n \in 0..MaxNameLen}
\* the password hashes offered
Hashes == {0, 7, 12345}

\* A client builds an account, serializes it and deserializes the line
\* (AccountTest.SerializationDeserialization).
SerializeDeserialize(u, hash, r) ==
    /\ last' = Call3("deserialize", Account(u, hash, r),
                     serialize(Account(u, hash, r)), EmptyId,
                     deserialize(serialize(Account(u, hash, r))))
    /\ UNCHANGED <<vertices, edges, heap, animals, employees, store, logger>>

AccountNext ==
    \E u \in Usernames, hash \in Hashes, i \in 1..Len(Roles) :
        SerializeDeserialize(u, hash, Roles[i])

AccountSpec == Init /\ [][AccountNext]_vars

(***************************************************************************)
(* What the graph claims are measured against: paths and their weights,    *)
(* defined from the edge records alone.                                    *)
(***************************************************************************)
VertexIds == DOMAIN vertices

Adjacent(a, b) == \E i \in 1..Len(edges) : Joins(edges[i], a, b)

\* the least weight among the records joining a and b
LeastEdgeWeight(a, b) ==
    LET ws == {edges[i].weight : i \in {j \in 1..Len(edges) : Joins(edges[j], a, b)}}
    IN CHOOSE w \in ws : \A x \in ws : w <= x

\* p is a sequence of vertices, each joined to the next by an edge
IsPath(p) ==
    /\ Len(p) >= 1
    /\ \A i \in 1..Len(p) : p[i] \in VertexIds
    /\ \A i \in 1..(Len(p) - 1) : Adjacent(p[i], p[i + 1])

\* the paths from a to b that visit no more vertices than the graph has
PathsBetween(a, b) ==
    {p \in UNION {[1..n -> VertexIds] : n \in 1..Cardinality(VertexIds)} :
        p[1] = a /\ p[Len(p)] = b /\ IsPath(p)}

RECURSIVE PathWeightFrom(_, _)
PathWeightFrom(p, i) ==
    IF i + 1 > Len(p) THEN 0
    ELSE LeastEdgeWeight(p[i], p[i + 1]) + PathWeightFrom(p, i + 1)

PathWeight(p) == PathWeightFrom(p, 1)

Connected(a, b) == PathsBetween(a, b) # {}

\* the least number of edges of a path from a to b
MinHops(a, b) ==
    LET ns == {Len(p) - 1 : p \in PathsBetween(a, b)}
    IN CHOOSE n \in ns : \A x \in ns : n <= x

MinWeight(a, b) ==
    LET ws == {PathWeight(p) : p \in PathsBetween(a, b)}
    IN CHOOSE w \in ws : \A x \in ws : w <= x

(***************************************************************************)
(* Claims about the graph                                                  *)
(***************************************************************************)
\* C6: for two vertices of the graph, findPathByWeight returns the empty
\* sequence exactly when no path joins them, and otherwise a path from
\* startId to endId whose total weight is the least over all paths.
C6_ShortestPathByWeight ==
    (last.op = "findPathByWeight" /\ last.a \in VertexIds /\ last.b \in VertexIds)
    => /\ last.ret.ok
       /\ (last.ret.path = <<>>) <=> ~Connected(last.a, last.b)
       /\ last.ret.path # <<>> =>
            /\ last.ret.path[1] = last.a
            /\ last.ret.path[Len(last.ret.path)] = last.b
            /\ IsPath(last.ret.path)
            /\ PathWeight(last.ret.path) = MinWeight(last.a, last.b)

\* C6 witness: the query returned a two-edge path although a direct edge
\* joins the two ends, the detour being strictly lighter.
C6_Witness ==
    /\ last.op = "findPathByWeight"
    /\ last.ret.ok
    /\ Len(last.ret.path) = 3
    /\ Adjacent(last.a, last.b)
    /\ PathWeight(last.ret.path) < LeastEdgeWeight(last.a, last.b)

\* C7: for two vertices joined by a path, distanceBetween returns the least
\* total weight of a path between them, also when addEdge was called more
\* than once for the same pair.
C7_DistanceIsMinWeight ==
    (/\ last.op = "distanceBetween"
     /\ last.a \in VertexIds /\ last.b \in VertexIds
     /\ Connected(last.a, last.b))
    => /\ last.ret.ok
       /\ last.ret.value = MinWeight(last.a, last.b)

\* C8: for two vertices joined by no path, distanceBetween returns exactly
\* -1 without an error, and the call leaves vertices and edges as they were.
C8_NoPathSentinelState ==
    (/\ last.op = "distanceBetween"
     /\ last.a \in VertexIds /\ last.b \in VertexIds
     /\ ~Connected(last.a, last.b))
    => last.ret = [ok |-> TRUE, value |-> -1]

C8_NoPathSentinel ==
    /\ []C8_NoPathSentinelState
    /\ [][last'.op = "distanceBetween" => UNCHANGED <<vertices, edges>>]_vars

\* C8 witness: distanceBetween answered -1 for two vertices of a graph that
\* has edges, none of which leads from one to the other.
C8_Witness ==
    /\ last.op = "distanceBetween"
    /\ last.a \in VertexIds /\ last.b \in VertexIds
    /\ edges # <<>>
    /\ ~Connected(last.a, last.b)
    /\ last.ret.value = -1

\* C9: when startId or endId is not a vertex, findPathByWeight returns the
\* empty path and distanceBetween returns -1, neither raising an error.
C9_UnknownIdsYieldNoPath ==
    /\ (last.op = "findPathByWeight"
        /\ (last.a \notin VertexIds \/ last.b \notin VertexIds))
       => last.ret = [ok |-> TRUE, path |-> <<>>]
    /\ (last.op = "distanceBetween"
        /\ (last.a \notin VertexIds \/ last.b \notin VertexIds))
       => last.ret = [ok |-> TRUE, value |-> -1]

\* C10: after removeVertex(x) or removeAviary(x), x is no vertex, no edge
\* record has x at either end, getEdge(x, y) is absent for every y, the other
\* vertices and the edges between them are as before, and nothing changes
\* when x was no vertex.
C10_RemoveVertexStep ==
    last'.op \in {"removeVertex", "removeAviary"} =>
        LET x == last'.a IN
        /\ x \notin DOMAIN vertices'
        /\ \A i \in 1..Len(edges') : edges'[i].from # x /\ edges'[i].to # x
        /\ \A y \in Ids : getEdge(edges', x, y) = <<>>
        /\ DOMAIN vertices' = (DOMAIN vertices) \ {x}
        /\ \A v \in DOMAIN vertices' : vertices'[v] = vertices[v]
        /\ edges' = SelectSeq(edges, LAMBDA e : e.from # x /\ e.to # x)
        /\ x \notin DOMAIN vertices => (vertices' = vertices /\ edges' = edges)

C10_RemoveVertex == [][C10_RemoveVertexStep]_vars

\* C10 witness: a vertex was removed from a graph that keeps an edge between
\* two other vertices.
C10_Witness ==
    /\ last.op = "removeVertex"
    /\ last.ret = TRUE
    /\ last.a \notin VertexIds
    /\ edges # <<>>


(***************************************************************************)
(* Placement claims, checked under Spec                                    *)
(***************************************************************************)
\* C1: in every reachable state, every aviary holds at most as many animals
\* as its capacity
C1_OccupantsWithinCapacity ==
    \A id \in DOMAIN vertices :
        Len(vertices[id].animals) <= vertices[id].capacity

\* a full aviary of capacity at least one has just refused an indexed animal
\* that is not one of its occupants
C1_Witness ==
    /\ last.op = "addAnimalInAviary"
    /\ last.ret = FALSE
    /\ last.a \in DOMAIN vertices
    /\ last.b \in animals
    /\ ~hasAnimal(vertices[last.a], last.b)
    /\ vertices[last.a].capacity >= 1
    /\ Len(vertices[last.a].animals) = vertices[last.a].capacity

\* C2: in every reachable state, any two occupants of one aviary are
\* compatible whichever of the two is asked about the other
C2_NoIncompatiblePair ==
    \A id \in DOMAIN vertices :
        \A i, j \in 1..Len(vertices[id].animals) :
            i # j =>
                isCompatibleWith(heap[vertices[id].animals[i]],
                                 heap[vertices[id].animals[j]])

\* an aviary with room has just refused a newcomer that every occupant
\* accepts but that itself does not accept some occupant
C2_Witness ==
    /\ last.op = "addAnimalInAviary"
    /\ last.ret = FALSE
    /\ last.a \in DOMAIN vertices
    /\ last.b \in animals
    /\ ~hasAnimal(vertices[last.a], last.b)
    /\ Len(vertices[last.a].animals) < vertices[last.a].capacity
    /\ \A i \in 1..Len(vertices[last.a].animals) :
          isCompatibleWith(heap[vertices[last.a].animals[i]], heap[last.b])
    /\ \E i \in 1..Len(vertices[last.a].animals) :
          ~isCompatibleWith(heap[last.b], heap[vertices[last.a].animals[i]])

\* C3: a moveAnimalBetweenAviaries call that returns false leaves every
\* aviary, and so the occupant lists of both aviaries named, as they were
C3_FailedMoveStep ==
    (last'.op = "moveAnimalBetweenAviaries" /\ last'.ret = FALSE)
        => vertices' = vertices

C3_FailedMoveChangesNothing == [][C3_FailedMoveStep]_vars

\* a move between two different aviaries has just failed although the animal
\* is indexed and lives in the source: the destination refused it
C3_Witness ==
    /\ last.op = "moveAnimalBetweenAviaries"
    /\ last.ret = FALSE
    /\ last.a # last.b
    /\ last.a \in DOMAIN vertices
    /\ last.b \in DOMAIN vertices
    /\ last.c \in animals
    /\ hasAnimal(vertices[last.a], last.c)

\* C4: right after removeAnimalFromAnimals returned true, the animal is not
\* in the index, not among the animals outside aviaries, and in no aviary
C4_RemovedIsGone ==
    (last.op = "removeAnimalFromAnimals" /\ last.ret = TRUE)
        => /\ last.a \notin animals
           /\ last.a \notin getAnimalsNotInAviaries(vertices, animals)
           /\ \A id \in DOMAIN vertices : ~hasAnimal(vertices[id], last.a)

(***************************************************************************)
(* Staffing claims, checked under StaffSpec                                *)
(***************************************************************************)
\* C5: an assignEmployeeToAviary call that names an aviary that does not
\* exist, or one whose assigned employee is another employee, returns false
\* and changes no aviary's assigned employee and no employee's list
C5_AssignStep ==
    ( /\ last'.op = "assignEmployeeToAviary"
      /\ \/ last'.b \notin DOMAIN vertices
         \/ vertices[last'.b].assignedEmployee \notin {EmptyId, last'.a} )
        => /\ last'.ret = FALSE
           /\ vertices' = vertices
           /\ employees' = employees

C5_AssignRefused == [][C5_AssignStep]_vars

(***************************************************************************)
(* Further claims about the graph                                          *)
(***************************************************************************)
\* C11: checkConnectivity returns true exactly when the graph has no vertex
\* or every two vertices are joined by a path; so without edges it returns
\* true exactly when there is at most one vertex
C11_ConnectivityExact ==
    last.op = "checkConnectivity" =>
        /\ last.ret = (\A a, b \in VertexIds : Connected(a, b))
        /\ edges = <<>> => (last.ret = (Cardinality(VertexIds) <= 1))

\* checkConnectivity has just returned true for three vertices, two of which
\* no edge joins directly
C11_Witness ==
    /\ last.op = "checkConnectivity"
    /\ last.ret = TRUE
    /\ Cardinality(VertexIds) = 3
    /\ \E a, b \in VertexIds : a # b /\ ~Adjacent(a, b)

\* C12: for two vertices joined by a path, distanceBetween returns the same
\* number in both directions
C12_DistanceSymmetric ==
    ( /\ last.op = "distanceBetween"
      /\ {last.a, last.b} \subseteq VertexIds
      /\ Connected(last.a, last.b) )
        => /\ last.ret.ok
           /\ distanceBetween(vertices, edges, last.b, last.a) = last.ret

(***************************************************************************)
(* Further placement claims, checked under Spec                            *)
(***************************************************************************)
\* C18: addAnimalInAviary(aviaryId, animalId) returns true exactly when both
\* ids are known and the aviary can add the animal; a call that returns
\* false changes nothing; after one that returns true the animal is an
\* occupant of that aviary and its aviaryId is aviaryId
C18_AdmitToStep ==
    LET av == last'.a
        an == last'.b
        admitted == /\ av \in DOMAIN vertices
                    /\ an \in animals
                    /\ canAddAnimal(vertices[av], an, heap)
    IN last'.op = "addAnimalInAviary"
          => /\ last'.ret = admitted
             /\ ~admitted => UNCHANGED <<vertices, edges, heap, animals,
                                         employees>>
             /\ admitted => /\ hasAnimal(vertices'[av], an)
                            /\ heap'[an].aviaryId = av

C18_AdmitTo == [][C18_AdmitToStep]_vars

\* an animal has just been admitted as the second occupant of an aviary
C18_Witness ==
    /\ last.op = "addAnimalInAviary"
    /\ last.ret = TRUE
    /\ Len(vertices[last.a].animals) = 2
    /\ vertices[last.a].animals[2] = last.b
    /\ heap[last.b].aviaryId = last.a

\* C20: in every reachable state no aviary's occupant list holds the same
\* animal twice
C20_NoDuplicateOccupant ==
    \A id \in DOMAIN vertices :
        \A i, j \in 1..Len(vertices[id].animals) :
            i # j => vertices[id].animals[i] # vertices[id].animals[j]

\* an aviary with room has just refused an animal that is one of its
\* occupants
C20_Witness ==
    /\ last.op = "addAnimalInAviary"
    /\ last.ret = FALSE
    /\ last.a \in DOMAIN vertices
    /\ last.b \in animals
    /\ hasAnimal(vertices[last.a], last.b)
    /\ Len(vertices[last.a].animals) < vertices[last.a].capacity

(***************************************************************************)
(* Claims about Aviary, checked under AviarySpec                           *)
(***************************************************************************)
\* one of the two animals is of type Reptile, the other of type Mammal or Bird
ReptileWithMammalOrBird(x, y) ==
    \/ (x.type = "Reptile" /\ y.type \in {"Mammal", "Bird"})
    \/ (y.type = "Reptile" /\ x.type \in {"Mammal", "Bird"})

\* C17: when addAnimal is called with an animal and the aviary holds an
\* occupant such that one of the two is a Reptile and the other a Mammal or
\* a Bird, isCompatibleWith is false for the two, asked either way, and the
\* call returns false
C17_ReptileStep ==
    LET av == vertices[last'.a]
        animal == last'.b
    IN ( /\ last'.op = "addAnimal"
         /\ animal # NullAnimal )
          => \A i \in 1..Len(av.animals) :
                ReptileWithMammalOrBird(heap[av.animals[i]], heap[animal])
                    => /\ ~isCompatibleWith(heap[av.animals[i]], heap[animal])
                       /\ ~isCompatibleWith(heap[animal], heap[av.animals[i]])
                       /\ last'.ret = Returned(FALSE)

C17_ReptileRefused == [][C17_ReptileStep]_vars

\* C19: addAnimal returns what canAddAnimal says of its argument, a null
\* pointer included; it leaves the occupant list as it was when that is
\* false and appends the animal at the end when it is true; and the program
\* runs on after the call
C19_AdmitStep ==
    LET av == last'.a
        animal == last'.b
        can == canAddAnimal(vertices[av], animal, heap)
    IN last'.op = "addAnimal"
          => /\ last'.ret = Returned(can)
             /\ Running'
             /\ vertices'[av].animals =
                   IF can THEN Append(vertices[av].animals, animal)
                   ELSE vertices[av].animals

C19_AdmitFollowsCanAdmit == [][C19_AdmitStep]_vars

(***************************************************************************)
(* Further staffing claims, checked under StaffSpec                        *)
(***************************************************************************)
\* C13: reassignEmployee(emp, E1, E2) with E1 and E2 two existing aviaries,
\* emp the assigned employee of E1 and E1 in emp's list returns true, leaves
\* E1 without employee, makes emp the employee of E2, and turns the first E1
\* of emp's list into E2 while every other entry stays where it was
C13_ReassignStep ==
    LET emp == last'.a
        E1 == last'.b
        E2 == last'.c
    IN ( /\ last'.op = "reassignEmployee"
         /\ E1 # E2
         /\ {E1, E2} \subseteq DOMAIN vertices
         /\ emp \in DOMAIN employees
         /\ vertices[E1].assignedEmployee = emp
         /\ InList(emp, E1) )
          => /\ last'.ret = TRUE
             /\ vertices'[E1].assignedEmployee = EmptyId
             /\ vertices'[E2].assignedEmployee = emp
             /\ LET old == employees[emp].aviaryIds
                    new == employees'[emp].aviaryIds
                    k == CHOOSE i \in 1..Len(old) :
                            old[i] = E1 /\ \A j \in 1..(i - 1) : old[j] # E1
                IN /\ Len(new) = Len(old)
                   /\ new[k] = E2
                   /\ \A i \in 1..Len(old) : i # k => new[i] = old[i]

C13_Reassign == [][C13_ReassignStep]_vars

\* a reassignment has just turned the list <<E1, E1>> of the employee E1 was
\* assigned to into <<E2, E1>>
C13_Witness ==
    /\ last.op = "reassignEmployee"
    /\ last.ret = TRUE
    /\ last.b # last.c
    /\ last.a \in DOMAIN employees
    /\ employees[last.a].aviaryIds = <<last.c, last.b>>
    /\ vertices[last.b].assignedEmployee = EmptyId
    /\ vertices[last.c].assignedEmployee = last.a

\* C15: removeEmployeeFromAviary(employeeId, aviaryId) returns true exactly
\* when the aviary and the employee exist and the aviary's assigned employee
\* is employeeId; a call that returns false changes no aviary and no
\* employee; one that returns true leaves the aviary without employee and
\* the employee's list without aviaryId, its other entries in their order
C15_UnassignStep ==
    LET emp == last'.a
        av == last'.b
        held == /\ av \in DOMAIN vertices
                /\ emp \in DOMAIN employees
                /\ vertices[av].assignedEmployee = emp
    IN last'.op = "removeEmployeeFromAviary"
          => /\ last'.ret = held
             /\ ~held => (vertices' = vertices /\ employees' = employees)
             /\ held =>
                   /\ vertices'[av].assignedEmployee = EmptyId
                   /\ employees'[emp].aviaryIds =
                         SelectSeq(employees[emp].aviaryIds, LAMBDA x : x # av)

C15_Unassign == [][C15_UnassignStep]_vars

\* an employee has just been taken off an aviary and still has another
\* aviary in its list
C15_Witness ==
    /\ last.op = "removeEmployeeFromAviary"
    /\ last.ret = TRUE
    /\ vertices[last.b].assignedEmployee = EmptyId
    /\ employees[last.a].aviaryIds # <<>>
    /\ ~InList(last.a, last.b)

\* C16: removeEmployee(id) returns true exactly when id is an employee;
\* after it returned true id is no employee and no aviary has id as its
\* assigned employee; a call that returns false changes no aviary and no
\* employee
C16_RemoveEmployeeStep ==
    last'.op = "removeEmployee"
        => /\ last'.ret = (last'.a \in DOMAIN employees)
           /\ last'.ret =>
                 /\ last'.a \notin DOMAIN employees'
                 /\ \A aid \in DOMAIN vertices' :
                       vertices'[aid].assignedEmployee # last'.a
           /\ ~last'.ret => (vertices' = vertices /\ employees' = employees)

C16_RemoveEmployee == [][C16_RemoveEmployeeStep]_vars

\* an employee has just been removed while two aviaries exist, none of which
\* has an employee, and the other employee is still there with an empty list
C16_Witness ==
    /\ last.op = "removeEmployee"
    /\ last.ret = TRUE
    /\ DOMAIN vertices = AviaryIds
    /\ \A aid \in AviaryIds : vertices[aid].assignedEmployee = EmptyId
    /\ DOMAIN employees = EmployeeIds \ {last.a}
    /\ \A e \in DOMAIN employees : employees[e].aviaryIds = <<>>

C21_RelocateStep ==
    LET from == last'.a
        to == last'.b
        an == last'.c
    IN (last'.op = "moveAnimalBetweenAviaries" /\ last'.ret = TRUE)
          => /\ hasAnimal(vertices'[to], an)
             /\ ~hasAnimal(vertices'[from], an)
             /\ vertices'[to].animals = Append(vertices[to].animals, an)
             /\ vertices'[from].animals =
                   SelectSeq(vertices[from].animals, LAMBDA x : x # an)
             /\ DOMAIN vertices' = DOMAIN vertices
             /\ \A o \in DOMAIN vertices \ {from, to} :
                   vertices'[o].animals = vertices[o].animals
             /\ animals' = animals
             /\ heap' = heap

C21_Relocate == [][C21_RelocateStep]_vars

\* an animal has just been moved while a third aviary holds an animal, and
\* the source keeps its other occupant
C21_Witness ==
    /\ last.op = "moveAnimalBetweenAviaries"
    /\ last.ret = TRUE
    /\ DOMAIN vertices = MoveAviaryIds
    /\ hasAnimal(vertices[last.b], last.c)
    /\ ~hasAnimal(vertices[last.a], last.c)
    /\ vertices[last.a].animals # <<>>
    /\ \E o \in MoveAviaryIds \ {last.a, last.b} : vertices[o].animals # <<>>

\* C22: getAnimalsNotInAviaries returns exactly the indexed animals that
\* are in the occupant list of no aviary of the graph; an indexed animal that
\* was never admitted (its aviaryId is still empty) is returned, and an
\* animal that is an occupant of an aviary is not
C22_Unplaced ==
    last.op = "getAnimalsNotInAviaries"
        => /\ last.ret =
                 {id \in animals :
                     \A aid \in DOMAIN vertices :
                         \A i \in 1..Len(vertices[aid].animals) :
                             vertices[aid].animals[i] # id}
           /\ \A id \in animals : heap[id].aviaryId = EmptyId => id \in last.ret
           /\ \A aid \in DOMAIN vertices :
                 \A i \in 1..Len(vertices[aid].animals) :
                     vertices[aid].animals[i] \notin last.ret

\* the query has just returned one of two indexed animals, the other being
\* an occupant of the last aviary only; the one returned was admitted once
\* to an aviary that is gone
C22_Witness ==
    /\ last.op = "getAnimalsNotInAviaries"
    /\ Cardinality(animals) = 2
    /\ Cardinality(last.ret) = 1
    /\ \E id \in last.ret : heap[id].aviaryId \notin DOMAIN vertices \cup {EmptyId}
    /\ \E id \in animals \ last.ret :
          \A aid \in DOMAIN vertices : hasAnimal(vertices[aid], id) <=> aid = 3
    /\ Cardinality(DOMAIN vertices) >= 2

(***************************************************************************)
(* Claims about the structure of the graph, checked under GraphSpec        *)
(***************************************************************************)
\* C23: in every reachable state both ends of every edge record are vertices
\* of the graph, and an addEdge call with an end that is no vertex leaves the
\* edge vector and the vertices as they were
C23_EndpointsState ==
    \A i \in 1..Len(edges) :
        edges[i].from \in VertexIds /\ edges[i].to \in VertexIds

C23_AddEdgeStep ==
    ( /\ last'.op = "addEdge"
      /\ (last'.a \notin DOMAIN vertices \/ last'.b \notin DOMAIN vertices) )
        => (edges' = edges /\ vertices' = vertices)

C23_EdgeEndsAreVertices ==
    /\ []C23_EndpointsState
    /\ [][C23_AddEdgeStep]_vars

\* addEdge has just been called from a vertex to an identifier that is no
\* vertex, on a graph that has an edge
C23_Witness ==
    /\ last.op = "addEdge"
    /\ last.a \in VertexIds
    /\ last.b \notin VertexIds
    /\ edges # <<>>

\* C24: after removeEdge(a, b) no record joins a and b in either direction,
\* so getEdge(a, b) and getEdge(b, a) are absent, whichever way round the
\* pair was given to addEdge; the records of other pairs stay in their
\* order, the vertices stay, and nothing changes when no record joined the
\* two
C24_RemoveEdgeStep ==
    LET a == last'.a
        b == last'.b
    IN last'.op = "removeEdge"
          => /\ getEdge(edges', a, b) = <<>>
             /\ getEdge(edges', b, a) = <<>>
             /\ \A i \in 1..Len(edges') :
                   ~({edges'[i].from, edges'[i].to} = {a, b})
             /\ edges' = SelectSeq(edges, LAMBDA e : {e.from, e.to} # {a, b})
             /\ vertices' = vertices
             /\ (\A i \in 1..Len(edges) : {edges[i].from, edges[i].to} # {a, b})
                   => edges' = edges

C24_RemoveEdge == [][C24_RemoveEdgeStep]_vars

\* removeEdge(a, b) has just erased the two records of an addEdge(b, a)
\* call and left the two records of another pair
C24_Witness ==
    /\ last.op = "removeEdge"
    /\ last.ret = 2
    /\ Len(edges) = 2
    /\ last.a < last.b

\* C25: getNeighbors(id) returns the vertices joined to id by an edge, each
\* of them once, and nothing for a vertex without edges or an identifier
\* that is no vertex
C25_NeighborsOnce ==
    last.op = "getNeighbors"
        => /\ {last.ret[i] : i \in 1..Len(last.ret)} =
                 {v \in VertexIds : Adjacent(last.a, v)}
           /\ \A i, j \in 1..Len(last.ret) :
                 i # j => last.ret[i] # last.ret[j]
           /\ (last.a \notin VertexIds \/ ~\E v \in VertexIds : Adjacent(last.a, v))
                 => last.ret = <<>>

(***************************************************************************)
(* Claim about addVertex, checked under VertexSpec                         *)
(***************************************************************************)
\* C27: addVertex with an identifier that is a vertex already returns
\* normally, leaves the set of vertex identifiers, every other vertex and
\* the edge vector as they were, and stores the vertex object of this call
\* under the identifier
C27_AddVertexStep ==
    (last'.op = "addVertex" /\ last'.a \in DOMAIN vertices)
        => /\ last'.ret = TRUE
           /\ DOMAIN vertices' = DOMAIN vertices
           /\ edges' = edges
           /\ vertices'[last'.a] = VertexWritten(last')
           /\ \A o \in DOMAIN vertices \ {last'.a} : vertices'[o] = vertices[o]

C27_AddVertexAgain == [][C27_AddVertexStep]_vars

\* addVertex has just stored an aviary under an identifier that has an edge,
\* and so was a vertex before the call
C27_Witness ==
    /\ last.op = "addVertex"
    /\ last.b # EmptyId
    /\ \E i \in 1..Len(edges) : TouchesVertex(edges[i], last.a)
    /\ vertices[last.a] = VertexWritten(last)

(***************************************************************************)
(* Claim about findPath, checked under HopSpec                             *)
(***************************************************************************)
\* C26: findPath(startId, endId) returns a path from startId to endId with
\* the fewest edges when the two are vertices joined by a path, and the
\* empty sequence when no path joins them or one of the two is no vertex
C26_FewestEdges ==
    last.op = "findPath"
        => /\ last.ret.ok
           /\ IF {last.a, last.b} \subseteq VertexIds /\ Connected(last.a, last.b)
              THEN /\ last.ret.path # <<>>
                   /\ last.ret.path[1] = last.a
                   /\ last.ret.path[Len(last.ret.path)] = last.b
                   /\ IsPath(last.ret.path)
                   /\ Len(last.ret.path) - 1 = MinHops(last.a, last.b)
              ELSE last.ret.path = <<>>

(***************************************************************************)
(* Claim about feeding, checked under FeedSpec                             *)
(***************************************************************************)
\* C28: no operation turns a fed animal into one that is not fed; feedById
\* of an indexed animal leaves it fed, whether it was fed before or not, and
\* changes nothing else of it; feedById changes no aviary, no other animal
\* and not the index, and nothing at all for an id the index does not hold
C28_FeedStep ==
    /\ \A id \in 1..Len(heap) : heap[id].isFed => heap'[id].isFed
    /\ last'.op = "feedById"
          => /\ vertices' = vertices
             /\ animals' = animals
             /\ Len(heap') = Len(heap)
             /\ \A id \in 1..Len(heap) : id # last'.a => heap'[id] = heap[id]
             /\ last'.a \in animals
                   => /\ heap'[last'.a] = [heap[last'.a] EXCEPT !.isFed = TRUE]
                      /\ last'.ret = IF heap[last'.a].isFed THEN "already full"
                                     ELSE "ate"
             /\ last'.a \notin animals
                   => (heap' = heap /\ last'.ret = "not found")

C28_FeedMonotone == [][C28_FeedStep]_vars

\* an animal that was fed already has just been fed again, in an aviary it
\* shares with an animal that is not fed
C28_Witness ==
    /\ last.op = "feedById"
    /\ last.ret = "already full"
    /\ heap[last.a].isFed
    /\ \E aid \in DOMAIN vertices :
          /\ hasAnimal(vertices[aid], last.a)
          /\ \E i \in 1..Len(vertices[aid].animals) :
                ~heap[vertices[aid].animals[i]].isFed

(***************************************************************************)
(* Claims about assignment lists                                           *)
(***************************************************************************)
\* C29: in every reachable state no employee's list holds the same aviary
\* twice (checked under StaffSpec, where assignEmployeeToAviary calls
\* Employee::assignAviary)
C29_NoDuplicateAssignment ==
    \A e \in DOMAIN employees :
        \A i, j \in 1..Len(employees[e].aviaryIds) :
            i # j => employees[e].aviaryIds[i] # employees[e].aviaryIds[j]

C30_ReplaceMissingStep ==
    LET e == last'.a
        old == employees[e].aviaryIds
        new == employees'[e].aviaryIds
    IN ( /\ last'.op = "replaceAviary"
         /\ \A i \in 1..Len(old) : old[i] # last'.b )
          => /\ Len(new) = Len(old) + 1
             /\ \A i \in 1..Len(old) : new[i] = old[i]
             /\ new[Len(new)] = last'.c
             /\ \A o \in EmployeeIds \ {e} : employees'[o] = employees[o]

C31_FailureReported ==
    [][ ( /\ ~store.up
          /\ last'.op \in {"addAnimalInAviary", "assignEmployeeToAviary",
                            "addPath"}
          /\ <<vertices, edges, heap, employees>>'
                # <<vertices, edges, heap, employees>> )
         => last'.ret = FALSE ]_vars

\* the undirected pairs of a set of (fromId, toId) pairs
Undirected(S) == {{k[1], k[2]} : k \in S}

\* the undirected pairs joined by the edge records es
UndirectedEdges(es) == {{es[i].from, es[i].to} : i \in DOMAIN es}

\* C39: with a database that never fails, the undirected paths in table
\* Paths are the undirected edges of the graph in memory after any addPath
\* and removePath calls, and starting the program again gives the same
\* undirected edges
C39_StoreMatchesGraph ==
    /\ [](Undirected(DOMAIN store.paths) = UndirectedEdges(edges))
    /\ [][last'.op = "ZooGraph"
            => UndirectedEdges(edges') = UndirectedEdges(edges)]_vars

\* the aviaries whose list of animals holds animalId
Holders(animalId) ==
    {av \in DOMAIN vertices : hasAnimal(vertices[av], animalId)}

\* C35: every animal is in the list of at most one aviary
C35_AtMostOneAviary ==
    \A an \in animals : Cardinality(Holders(an)) <= 1

\* C36: an animal's aviaryId is empty when no aviary's list holds the
\* animal, and otherwise is the id of an existing aviary whose list holds it
C36_AviaryIdMatchesList ==
    \A an \in animals :
        IF Holders(an) = {}
        THEN heap[an].aviaryId = EmptyId
        ELSE heap[an].aviaryId \in Holders(an)

\* C34: every aviary id in an employee's list names an existing aviary whose
\* assigned employee is that employee, and so getUnassignedEmployees gives
\* exactly the employees that are the assigned employee of no aviary
C34_ListsNameOwnAviaries ==
    /\ \A e \in DOMAIN employees :
          \A i \in 1..Len(employees[e].aviaryIds) :
             LET av == employees[e].aviaryIds[i]
             IN av \in DOMAIN vertices /\ vertices[av].assignedEmployee = e
    /\ getUnassignedEmployees(employees)
          = {e \in DOMAIN employees :
                \A av \in DOMAIN vertices : vertices[av].assignedEmployee # e}

\* C37: an aviary's assigned employee is empty, or is an employee of the
\* index whose list holds that aviary
C37_AssignedIsIndexed ==
    \A av \in DOMAIN vertices :
        LET e == vertices[av].assignedEmployee
        IN e = EmptyId \/ (e \in DOMAIN employees /\ InList(e, av))

\* reassignEmployee has just given an aviary to an employee while another
\* employee's list still names that aviary
C37_Witness ==
    /\ last.op = "reassignEmployee"
    /\ last.ret = TRUE
    /\ last.b # last.c
    /\ vertices[last.c].assignedEmployee = last.a
    /\ \E e \in DOMAIN employees \ {last.a} : InList(e, last.c)

\* the number of edge records (a, b, w)
CountRecords(a, b, w) ==
    Cardinality({i \in 1..Len(edges) : edges[i] = Edge(a, b, w)})

\* C38: for all a, b and w there are as many edge records (a, b, w) as
\* records (b, a, w), and getEdge(a, b) is present exactly when getEdge(b, a)
\* is, with the same weight
C38_MirroredPairs ==
    \A a \in Ids, b \in Ids :
        /\ \A w \in Weights : CountRecords(a, b, w) = CountRecords(b, a, w)
        /\ (getEdge(edges, a, b) = <<>>) <=> (getEdge(edges, b, a) = <<>>)
        /\ getEdge(edges, a, b) # <<>>
              => getEdge(edges, a, b)[1].weight = getEdge(edges, b, a)[1].weight

\* addEdge has just been called for a pair that had an edge already, with
\* the ends the other way round and another weight
C38_Witness ==
    /\ last.op = "addEdge"
    /\ Len(edges) = 4
    /\ edges[3].from = edges[1].to
    /\ edges[3].to = edges[1].from
    /\ edges[3].weight # edges[1].weight

\* C32: enable(L) turns on the levels of L and disable(L) turns them off,
\* every other level staying as it was, and log(level, msg) writes the
\* message, as one line, only when the level is on at the time of the call
C32_LoggerStep ==
    /\ last'.op = "enable"
          => /\ logger'.flags = bitOr(logger.flags, last'.a)
             /\ \A lvl \in Levels :
                   isEnabled(logger', lvl)
                      = (HasBit(last'.a, lvl) \/ isEnabled(logger, lvl))
    /\ last'.op = "disable"
          => /\ logger'.flags = bitAndNot(logger.flags, last'.a)
             /\ \A lvl \in Levels :
                   isEnabled(logger', lvl)
                      = (~HasBit(last'.a, lvl) /\ isEnabled(logger, lvl))
    /\ last'.op = "log"
          => IF isEnabled(logger, last'.a)
             THEN /\ logger'.flags = logger.flags
                  /\ logger'.out
                        = Append(logger.out, <<levelToStr(last'.a)>> \o last'.b)
                  /\ logger'.file
                        = IF logger.open
                          THEN Append(logger.file,
                                      <<levelToStr(last'.a)>> \o last'.b)
                          ELSE logger.file
             ELSE logger' = logger
    /\ last'.op = "isEnabled"
          => last'.ret = HasBit(logger.flags, last'.a)

C32_EnableDisableLog == [][C32_LoggerStep]_vars

\* log has just been called at a level that was turned off after an earlier
\* line had been written, and the logger's file is open
C32_Witness ==
    /\ last.op = "log"
    /\ ~isEnabled(logger, last.a)
    /\ logger.open
    /\ logger.file # <<>>

\* C33: deserialize(a.serialize()) gives an account with the user name, the
\* password hash and the role of a, for every account a
C33_RoundTrip ==
    last.op = "deserialize"
        => (last.ret.ok /\ last.ret.value = last.a)

====
